---- MODULE Spec2Model ----
(***************************************************************************)
(* WireGuard peer manager: the Express handlers of the backend server, the *)
(* MikroTik router client they call and the SQLite key-custody store.      *)
(*                                                                         *)
(* A request is a process p with a program counter pc[p].  One action is   *)
(* what the event loop runs in one turn: the arrival of a request with the *)
(* handler's code up to its first await, or the answer to the awaited      *)
(* router / database call (its effect on the router or the store) with the *)
(* code that follows up to the next await.  Every call may fail.  The      *)
(* router's peer table and the peer_keys table are the shared state.       *)
(***************************************************************************)
EXTENDS Integers, Sequences, FiniteSets, TLC

(***************************************************************************)
(* Bounds of the model.                                                    *)
(***************************************************************************)
\* Requests served in one behaviour.
MaxReqs == 2

(***************************************************************************)
(* Program constants.                                                      *)
(***************************************************************************)
\* getNextAvailableIP: for (let i = 2; i < 255; i++)
FirstHost == 2
LastHostExcl == 255
\* isValidWireGuardKey: key.length !== 44
KeyLen == 44
\* isValidWireGuardKey: the {43} of /^[A-Za-z0-9+/]{43}=$/
RegexBody == 43

(***************************************************************************)
(* Values.                                                                 *)
(***************************************************************************)
\* A key string: n tells one generated key from another; len, alpha and pad
\* are what isValidWireGuardKey reads of it (its length, whether its first
\* len-1 characters are in [A-Za-z0-9+/], whether its last character is '=').
\* kind is "priv", "pub" or "psk".  NoKey is null / undefined.
NoKey == [kind |-> "none", n |-> 0, len |-> 0, alpha |-> FALSE, pad |-> FALSE]
Key(kind, n) == [kind |-> kind, n |-> n, len |-> KeyLen, alpha |-> TRUE, pad |-> TRUE]
\* The same key cut by one character: what a broken generator returns.
ShortKey(kind, n) == [kind |-> kind, n |-> n, len |-> KeyLen - 1, alpha |-> TRUE, pad |-> FALSE]

\* An allowed-address string: host N with mask M is `${baseIP}.N/M`.
\* NoAddr is an absent (undefined) allowedIPs, UndefAddr the text
\* "undefined" that the command builder sends for it, and EmptyAddr the
\* empty string, which the form sends for an empty field.
NoAddr == [host |-> 0, mask |-> 0]
UndefAddr == [host |-> -1, mask |-> 0]
EmptyAddr == [host |-> -2, mask |-> 0]
Addr(h, m) == [host |-> h, mask |-> m]

\* Names are sequences of characters; " " is white space.
\* The name of a request body: missing or empty, blank, or " b ".
Blank == <<" ">>
NameB == <<" ", "b", " ">>
Names == {<< >>, Blank, NameB}

RECURSIVE TrimLeft(_)
TrimLeft(s) == IF s # << >> /\ Head(s) = " " THEN TrimLeft(Tail(s)) ELSE s
RECURSIVE TrimRight(_)
TrimRight(s) ==
  IF s # << >> /\ s[Len(s)] = " " THEN TrimRight(SubSeq(s, 1, Len(s) - 1)) ELSE s
\* String.prototype.trim
Trim(s) == TrimRight(TrimLeft(s))

\* Router identifiers are 1, 2, ...; 0 is "no identifier".
NoId == 0

\* The router's WireGuard interfaces, in the order in which
\* /interface/wireguard/print lists them; NoIface is no name (null,
\* undefined).
Interfaces == <<"wg0", "wg1">>
NoIface == ""
\* config.wireguard.interfaceName of config.json: unset, or one of the
\* router's interfaces.
ConfigInterfaces == {NoIface} \cup {Interfaces[i] : i \in DOMAIN Interfaces}
\* config.mikrotik.wireguard.interfaceName of config.json, the name
\* MikrotikAPI looks for: unset, one of the router's interfaces, or a name
\* the router does not have.
NotOnRouter == "wg9"
TargetInterfaces == ConfigInterfaces \cup {NotOnRouter}

\* A router peer (its interface, public-key, allowed-address, comment,
\* disabled and preshared-key fields) and a peer_keys row.
Peer(interface, pub, addr, comment, disabled, psk) ==
  [interface |-> interface, pub |-> pub, addr |-> addr, comment |-> comment,
   disabled |-> disabled, psk |-> psk]
Row(name, priv, psk, addr) ==
  [name |-> name, priv |-> priv, psk |-> psk, addr |-> addr]

\* A function with one key removed, and with one key set.
Without(f, k) == [i \in DOMAIN f \ {k} |-> f[i]]
With(f, k, v) == [i \in DOMAIN f \cup {k} |-> IF i = k THEN v ELSE f[i]]

(***************************************************************************)
(* State.                                                                  *)
(***************************************************************************)
VARIABLES
  router,   \* the router's WireGuard peer table: identifier -> Peer
  custody,  \* the peer_keys table: mikrotik_id -> Row
  nextId,   \* the identifier the router gives the next peer it adds
  nreq,     \* requests started so far; request k generates the keys of serial k
  oob,      \* whether a peer was removed on the router behind the server's back
  undone,   \* the names whose Create was undone by its compensating delete
  lastToggle, \* the Toggle answered 200 last, when no request was answered since
  peer_keys, \* the peer_keys table row by row, followed where the store is
            \* called on its own (SpecStore); elsewhere the empty NoTable
  configInterface, \* config.wireguard.interfaceName, as config.json gives it
  targetInterface, \* config.mikrotik.wireguard.interfaceName, as config.json
            \* gives it to MikrotikAPI
  wireguardInterface, \* MikrotikAPI's wireguardInterface: the interface name
            \* it has looked up, NoIface before the first lookup
  pc,       \* pc[p]: where request p stands in its handler
  req,      \* req[p]: the handler's parameters and local variables
  res,      \* res[p]: the response sent
  pre       \* pre[p]: the router and the store when request p started

vars == <<router, custody, nextId, nreq, oob, undone, lastToggle, peer_keys,
          configInterface, targetInterface, wireguardInterface, pc, req, res, pre>>

Procs == DOMAIN pc

(***************************************************************************)
(* Key generation and validation.                                          *)
(***************************************************************************)
\* What the host offers generateKeys: whether a wg tool is installed where
\* findWireGuardPath looks, whether the tool's genkey, pubkey and genpsk
\* commands all work, whether require('tweetnacl') succeeds, and the shape
\* of the keys that come back ("ok", or "badpub" / "badpsk" for a generator
\* that returns a malformed public or preshared key).
GenEnv(tool, primary, fallback, shape) ==
  [tool |-> tool, primary |-> primary, fallback |-> fallback, shape |-> shape]
GenEnvs ==
  { GenEnv(TRUE, TRUE, TRUE, "ok"), GenEnv(FALSE, FALSE, TRUE, "ok"),
    GenEnv(TRUE, FALSE, TRUE, "ok"), GenEnv(FALSE, FALSE, FALSE, "ok"),
    GenEnv(TRUE, TRUE, FALSE, "ok"),
    GenEnv(FALSE, FALSE, TRUE, "badpub"), GenEnv(FALSE, FALSE, TRUE, "badpsk") }

\* The server file calls execSync but never requires child_process: the
\* name is not bound and every call throws a ReferenceError, whatever the
\* command would have done.
ExecSyncBound == FALSE
execSync(works) == ExecSyncBound /\ works
\* findWireGuardPath: the first path whose `--version` runs; every throw is
\* caught and the next path tried, null (FALSE) when none is left.
findWireGuardPath(env) == execSync(env.tool)
\* JavaScript values as isValidWireGuardKey sees them: the type typeof
\* reports ("null" for null), the characters of a string (the elements of
\* an array), the number of a number.
JsNull == [type |-> "null", chars |-> << >>, num |-> 0]
JsUndefined == [type |-> "undefined", chars |-> << >>, num |-> 0]
JsString(chars) == [type |-> "string", chars |-> chars, num |-> 0]
JsNumber(n) == [type |-> "number", chars |-> << >>, num |-> n]
JsArray(chars) == [type |-> "object", chars |-> chars, num |-> 0]
\* !v
Falsy(v) ==
  \/ v.type \in {"null", "undefined"}
  \/ v.type = "string" /\ v.chars = << >>
  \/ v.type = "number" /\ v.num = 0

\* The class [A-Za-z0-9+/] of the regular expression.
Base64Alphabet ==
  { "A", "B", "C", "D", "E", "F", "G", "H", "I", "J", "K", "L", "M",
    "N", "O", "P", "Q", "R", "S", "T", "U", "V", "W", "X", "Y", "Z",
    "a", "b", "c", "d", "e", "f", "g", "h", "i", "j", "k", "l", "m",
    "n", "o", "p", "q", "r", "s", "t", "u", "v", "w", "x", "y", "z",
    "0", "1", "2", "3", "4", "5", "6", "7", "8", "9", "+", "/" }
\* The same characters in the order of the base64 table.
Base64Table ==
  << "A", "B", "C", "D", "E", "F", "G", "H", "I", "J", "K", "L", "M",
    "N", "O", "P", "Q", "R", "S", "T", "U", "V", "W", "X", "Y", "Z",
    "a", "b", "c", "d", "e", "f", "g", "h", "i", "j", "k", "l", "m",
    "n", "o", "p", "q", "r", "s", "t", "u", "v", "w", "x", "y", "z",
    "0", "1", "2", "3", "4", "5", "6", "7", "8", "9", "+", "/" >>

\* The text of a key: len characters, the last one '=' when the key is
\* padded, the others the base64 digit of the key's serial, or '-' when the
\* key holds characters outside the alphabet.  null for NoKey.
JsValue(key) ==
  IF key = NoKey THEN JsNull
  ELSE JsString([i \in 1..key.len |->
         IF i = key.len THEN (IF key.pad THEN "=" ELSE "A")
         ELSE IF key.alpha THEN Base64Table[(key.n % Len(Base64Table)) + 1]
         ELSE "-"])

\* The key bundle of serial n: the public key is the one derived from the
\* private key (same serial); the preshared key only when asked for.
KeyBundle(n, includePresharedKey, shape) ==
  [priv |-> Key("priv", n),
   pub  |-> IF shape = "badpub" THEN ShortKey("pub", n) ELSE Key("pub", n),
   psk  |-> IF ~includePresharedKey THEN NoKey
            ELSE IF shape = "badpsk" THEN ShortKey("psk", n) ELSE Key("psk", n)]

\* generateKeysFallback: throws when tweetnacl is missing.
generateKeysFallback(includePresharedKey, env, n) ==
  IF env.fallback
    THEN [ok |-> TRUE, strategy |-> "fallback",
          keys |-> KeyBundle(n, includePresharedKey, env.shape)]
    ELSE [ok |-> FALSE, strategy |-> "none",
          keys |-> [priv |-> NoKey, pub |-> NoKey, psk |-> NoKey]]

\* generateKeys: the wg tool when found and working, else the fallback.
generateKeys(includePresharedKey, env, n) ==
  IF findWireGuardPath(env) /\ execSync(env.primary)
    THEN [ok |-> TRUE, strategy |-> "primary",
          keys |-> KeyBundle(n, includePresharedKey, env.shape)]
    ELSE generateKeysFallback(includePresharedKey, env, n)

\* Mutant of isValidWireGuardKey: any key that is present passes.
isValidWireGuardKeyPresent(key) == ~Falsy(key)

\* Mutant of isValidWireGuardKey: only the type and the length are checked.
isValidWireGuardKeyLengthOnly(key) ==
  key.type = "string" /\ Len(key.chars) = KeyLen

\* /^[A-Za-z0-9+/]{43}=$/.test(chars): the whole input is RegexBody
\* characters of the class followed by one '='.
base64Regex(chars) ==
  /\ Len(chars) = RegexBody + 1
  /\ \A i \in 1..RegexBody : chars[i] \in Base64Alphabet
  /\ chars[RegexBody + 1] = "="

\* isValidWireGuardKey
isValidWireGuardKey(key) ==
  IF Falsy(key) \/ key.type # "string" THEN FALSE
  ELSE IF Len(key.chars) # KeyLen THEN FALSE
  ELSE base64Regex(key.chars)

(***************************************************************************)
(* The router client (MikrotikAPI) over the router's peer table.           *)
(***************************************************************************)
\* How a call to the router or the store ends.
CallOutcomes == {"ok", "error"}
\* getPeers also ends by returning [] when the error text holds
\* 'no such item' or 'not found'.
GetPeersOutcomes == {"ok", "error", "notfound"}

\* if (this.wireguardInterface) return this.wireguardInterface: the test
\* getWireGuardInterface makes before it sends anything.
InterfaceCached == wireguardInterface # NoIface
\* getWireGuardInterface from its await on.  Of the answer to
\* /interface/wireguard/print it takes the interface its config names, and
\* throws '... not found' when the router has none of that name; with no
\* name configured it takes the first interface.  A failed call throws, with
\* 'not found' in the message when the router's error held it.  The answer
\* is used whatever the cache holds by then.
getWireGuardInterface(outcome) ==
  LET found == {i \in DOMAIN Interfaces : Interfaces[i] = targetInterface}
  IN CASE outcome = "ok" /\ targetInterface = NoIface ->
            [ok |-> TRUE, name |-> Interfaces[1], notFound |-> FALSE]
       [] outcome = "ok" /\ targetInterface # NoIface /\ found # {} ->
            [ok |-> TRUE, name |-> targetInterface, notFound |-> FALSE]
       [] outcome = "ok" /\ targetInterface # NoIface /\ found = {} ->
            [ok |-> FALSE, name |-> NoIface, notFound |-> TRUE]
       [] OTHER ->
            [ok |-> FALSE, name |-> NoIface, notFound |-> outcome = "notfound"]
\* this.wireguardInterface after the call
Cached(lookup) == IF lookup.ok THEN lookup.name ELSE wireguardInterface
\* const interfaceName = config.wireguard?.interfaceName ||
\*   await mikrotik.getWireGuardInterface(): whether the name is at hand
\* without a router call (config.json names it, or MikrotikAPI has it
\* cached), and the name then.
InterfaceAtHand == configInterface # NoIface \/ InterfaceCached
NameAtHand == IF configInterface # NoIface THEN configInterface ELSE wireguardInterface

\* peers.filter(peer => peer.interface === interfaceName || !peer.interface)
OnInterface(peers, interfaceName) ==
  [i \in {j \in DOMAIN peers : peers[j].interface \in {interfaceName, NoIface}} |->
     peers[i]]
\* What getPeers ends with: the peers it returns (identifier -> Peer), with
\* caught when they are the [] of its catch block, or a throw.
Listing(peers) == [ok |-> TRUE, caught |-> FALSE, peers |-> peers]
ListingCaught == [ok |-> TRUE, caught |-> TRUE, peers |-> << >>]
ListingThrows == [ok |-> FALSE, caught |-> FALSE, peers |-> << >>]
\* getPeers from the answer to its interface lookup on: the filter over the
\* peers printed before.
getPeersFilter(peers, outcome) ==
  LET lookup == getWireGuardInterface(outcome)
  IN CASE lookup.ok       -> Listing(OnInterface(peers, lookup.name))
       [] lookup.notFound -> ListingCaught
       [] OTHER           -> ListingThrows
\* getPeers up to that answer, and further when the interface name is
\* cached; pending when the interface lookup is still to be awaited.
getPeers(outcome) ==
  CASE outcome = "ok" /\ ~InterfaceCached ->
         [pending |-> TRUE, peers |-> router, listed |-> ListingThrows]
    [] outcome = "ok" ->
         [pending |-> FALSE, peers |-> << >>, listed |-> Listing(OnInterface(router, wireguardInterface))]
    [] outcome = "notfound" ->
         [pending |-> FALSE, peers |-> << >>, listed |-> ListingCaught]
    [] OTHER ->
         [pending |-> FALSE, peers |-> << >>, listed |-> ListingThrows]

\* Mutant of FindNewPeer: the peer is searched for by its comment alone.
FindNewPeerByComment(peers, pub, comment) ==
  LET hits == {i \in DOMAIN peers : peers[i].comment = comment}
  IN IF hits = {} THEN NoId ELSE CHOOSE i \in hits : \A j \in hits : i <= j

\* peers.find(p => p['public-key'] === pub && p.comment === comment):
\* the first peer listed that matches, NoId when none does.
FindNewPeer(peers, pub, comment) ==
  LET hits == {i \in DOMAIN peers : peers[i].pub = pub /\ peers[i].comment = comment}
  IN IF hits = {} THEN NoId ELSE CHOOSE i \in hits : \A j \in hits : i <= j

\* The address the command builder sends: `=allowed-address=${value}`.
SentAddr(addr) == IF addr = NoAddr THEN UndefAddr ELSE addr

(***************************************************************************)
(* getNextAvailableIP over the peers listed.                               *)
(***************************************************************************)
\* peer['allowed-address'].split('/')[0] of every peer, empty ones dropped
UsedIPs(peers) ==
  {peers[i].addr.host : i \in DOMAIN peers} \ {NoAddr.host, EmptyAddr.host}
FreeHosts(peers) == {h \in FirstHost .. (LastHostExcl - 1) : h \notin UsedIPs(peers)}
\* Mutant of NextAvailableIP: the scan runs downwards and returns the last
\* free address.
NextAvailableIPFromTop(peers) ==
  IF FreeHosts(peers) = {} THEN NoAddr
  ELSE Addr(CHOOSE h \in FreeHosts(peers) : \A g \in FreeHosts(peers) : h >= g, 32)

\* the first free `${baseIP}.${i}/32`, NoAddr when the scan ends without one
NextAvailableIP(peers) ==
  IF FreeHosts(peers) = {} THEN NoAddr
  ELSE Addr(CHOOSE h \in FreeHosts(peers) : \A g \in FreeHosts(peers) : h <= g, 32)

(***************************************************************************)
(* The key-custody store (database.js) over the peer_keys table.           *)
(***************************************************************************)
\* The table's NOT NULL columns: name, private_key, allowed_ips.
RowAccepted(row) == row.priv # NoKey /\ row.addr # NoAddr
\* INSERT OR REPLACE INTO peer_keys: mikrotik_id is UNIQUE, so a row under
\* the same identifier is replaced.
savePeerKeys(table, id, row) == With(table, id, row)
\* DELETE FROM peer_keys WHERE mikrotik_id = ?
deletePeerKeys(table, id) == Without(table, id)
\* UPDATE peer_keys SET preshared_key = ? WHERE mikrotik_id = ?
updatePresharedKey(table, id, psk) ==
  [i \in DOMAIN table |-> IF i = id THEN [table[i] EXCEPT !.psk = psk] ELSE table[i]]
\* SELECT mikrotik_id, ... FROM peer_keys: the identifiers stored.
StoredIds(table) == DOMAIN table

\* The same table row by row.  A row has the columns id (INTEGER PRIMARY KEY
\* AUTOINCREMENT, here rowid), mikrotik_id, name, private_key, preshared_key
\* and allowed_ips; seq is the largest rowid given out so far.  The handlers
\* above see the store through `custody`, the rows by mikrotik_id.
TableRow(rowid, id, row) ==
  [rowid |-> rowid, mikrotik_id |-> id, name |-> row.name, priv |-> row.priv,
   psk |-> row.psk, addr |-> row.addr]
TableOf(table) ==
  [rows |-> {TableRow(i, i, table[i]) : i \in DOMAIN table},
   seq |-> IF DOMAIN table = {} THEN 0
           ELSE CHOOSE m \in DOMAIN table : \A i \in DOMAIN table : i <= m]
\* The table with no row; also what peer_keys is where the rows are not
\* followed one by one.
NoTable == [rows |-> {}, seq |-> 0]
\* Mutant of InsertOrReplace: mikrotik_id without its UNIQUE constraint, the
\* statement a plain INSERT.
InsertPlain(t, id, row) ==
  [rows |-> t.rows \cup {TableRow(t.seq + 1, id, row)}, seq |-> t.seq + 1]
\* INSERT OR REPLACE INTO peer_keys (mikrotik_id, ...) VALUES (...): the rows
\* that break UNIQUE(mikrotik_id) are deleted, then the new row is inserted
\* under the next rowid.
InsertOrReplace(t, id, row) ==
  [rows |-> {r \in t.rows : r.mikrotik_id # id} \cup {TableRow(t.seq + 1, id, row)},
   seq |-> t.seq + 1]
\* DELETE FROM peer_keys WHERE mikrotik_id = ?
DeleteWhere(t, id) ==
  [rows |-> {r \in t.rows : r.mikrotik_id # id}, seq |-> t.seq]
\* UPDATE peer_keys SET preshared_key = ? WHERE mikrotik_id = ?
UpdateWhere(t, id, psk) ==
  [rows |-> {IF r.mikrotik_id = id THEN [r EXCEPT !.psk = psk] ELSE r : r \in t.rows},
   seq |-> t.seq]

(***************************************************************************)
(* Requests.                                                               *)
(***************************************************************************)
NoKeys == [priv |-> NoKey, pub |-> NoKey, psk |-> NoKey]
\* No row: what getPeerKeys resolves to when the SELECT finds nothing.
NoRow == Row(<< >>, NoKey, NoKey, NoAddr)
\* No key generation recorded.
NoGen ==
  [called |-> FALSE, env |-> GenEnv(FALSE, FALSE, FALSE, "ok"),
   includePresharedKey |-> FALSE,
   result |-> [ok |-> FALSE, strategy |-> "none", keys |-> NoKeys]]
\* A handler's parameters and locals: allowedIPs is the address of the
\* request body and addr the address in use (finalAllowedIPs); peers is
\* the answer to the print of a getPeers whose interface lookup is still
\* awaited, and listed what the last getPeers returned.  Two fields
\* record what the code only logs: routerDelete, how a caught
\* mikrotik.deletePeer ended ("ok", "failed"), and fault, the worst end of a
\* call of cleanupOrphanedPeers so far ("none", "notfound", "error").
ReqIdle ==
  [op |-> "none", id |-> NoId, name |-> << >>, allowedIPs |-> NoAddr, addr |-> NoAddr,
   enabled |-> FALSE, updPsk |-> FALSE, keys |-> NoKeys, newId |-> NoId,
   active |-> {}, orphans |-> {}, nOrphans |-> 0, curDisabled |-> FALSE,
   routerDelete |-> "none", fault |-> "none",
   cleanup |-> FALSE, listed |-> << >>, row |-> NoRow, relisted |-> FALSE,
   interfaceName |-> NoIface, peers |-> << >>, usePresharedKey |-> FALSE, n |-> 0,
   gen |-> NoGen, probe |-> JsNull, checked |-> FALSE, valid |-> FALSE]
\* The JSON body of a response; a field a handler does not send keeps its
\* value here.
NoBody ==
  [id |-> NoId, name |-> << >>, pub |-> NoKey, addr |-> NoAddr, enabled |-> FALSE,
   hasPsk |-> FALSE, hasStoredKeys |-> FALSE, newPsk |-> NoKey, count |-> 0,
   peers |-> << >>, availableIds |-> {}, config |-> << >>, fileName |-> << >>,
   serverKey |-> NoKey]
\* code is the HTTP status (0: no response yet); err names the failures the
\* error message reports.
NoRes == [code |-> 0, err |-> {}, body |-> NoBody, n |-> 0]
NoPre == [router |-> << >>, custody |-> << >>]
\* lastToggle: the peer toggled and the flag it had before; NoToggle when the
\* request answered last was not a Toggle answered 200.
NoToggle == [id |-> NoId, disabled |-> FALSE]

\* allowedIPs of a request body: absent, the empty string of an empty form
\* field, or a CIDR string.
AddrInputs == {NoAddr, EmptyAddr, Addr(5, 32)}
\* allowedIPs of a PUT body: the same
UpdateAddrInputs == {NoAddr, EmptyAddr, Addr(5, 32)}
\* allowedIPs || ...: undefined and '' are falsy
AddrGiven(addr) == addr \notin {NoAddr, EmptyAddr}
\* an :id of a request path: an identifier the router has given out
IdInputs == 1 .. (nextId - 1)

\* res.json(body) / res.status(code).json({error})
Respond(p, code, err, body) ==
  /\ pc' = [pc EXCEPT ![p] = "done"]
  /\ res' = [res EXCEPT ![p] = [code |-> code, err |-> err, body |-> body,
                                n |-> res[p].n + 1]]
Goto(p, label) ==
  /\ pc' = [pc EXCEPT ![p] = label]
  /\ res' = res
\* A request arrives: it is counted and the state it meets is recorded.
Arrive(p) ==
  /\ pc[p] = "idle"
  /\ nreq < MaxReqs
  /\ nreq' = nreq + 1
  /\ pre' = [pre EXCEPT ![p] = [router |-> router, custody |-> custody]]

\* The response has been delivered; the slot serves the next request.
Return(p) ==
  /\ pc[p] = "done"
  /\ pc' = [pc EXCEPT ![p] = "idle"]
  /\ req' = [req EXCEPT ![p] = ReqIdle]
  /\ res' = [res EXCEPT ![p] = NoRes]
  /\ pre' = [pre EXCEPT ![p] = NoPre]
  /\ lastToggle' = IF req[p].op = "toggle" /\ res[p].code = 200
                     THEN [id |-> req[p].id, disabled |-> req[p].curDisabled]
                     ELSE NoToggle
  /\ UNCHANGED <<configInterface, targetInterface, wireguardInterface, router, custody, nextId, nreq, oob, undone, peer_keys>>

(***************************************************************************)
(* POST /api/peers (Create).                                               *)
(***************************************************************************)
\* Create from the interface name on: key generation and validation, up to
\* the first router call that follows.  With `traced`, the request keeps
\* what generateKeys was given and what it returned.
CreateKeys(p, request, interfaceName, env, traced) ==
  LET g == generateKeys(request.usePresharedKey, env, request.n)
      keys == g.keys
      gen == IF traced
               THEN [called |-> TRUE, env |-> env,
                     includePresharedKey |-> request.usePresharedKey, result |-> g]
               ELSE NoGen
      err == CASE ~g.ok -> "keygen_unavailable"
               [] ~isValidWireGuardKey(JsValue(keys.pub)) -> "invalid_public_key"
               [] keys.psk # NoKey /\ ~isValidWireGuardKey(JsValue(keys.psk)) ->
                    "invalid_preshared_key"
               [] OTHER -> "none"
  IN IF err = "none"
       THEN /\ req' = [req EXCEPT ![p] =
                    [request EXCEPT !.keys = keys, !.gen = gen,
                                    !.interfaceName = interfaceName]]
            /\ Goto(p, IF AddrGiven(request.allowedIPs) THEN "c_create" ELSE "c_alloc")
       ELSE /\ req' = [req EXCEPT ![p] =
                    [ReqIdle EXCEPT !.op = "create", !.name = request.name,
                                    !.gen = gen]]
            /\ Respond(p, 500, {err}, NoBody)

\* Mutant of CreateBegin: the name is not checked.
CreateBeginUnchecked(p) ==
  /\ Arrive(p)
  /\ \E name \in Names, addr \in AddrInputs, usePresharedKey \in BOOLEAN,
        env \in GenEnvs :
       LET request == [ReqIdle EXCEPT !.op = "create", !.name = name,
                                      !.allowedIPs = addr, !.addr = addr,
                                      !.usePresharedKey = usePresharedKey,
                                      !.n = nreq + 1]
       IN IF InterfaceAtHand
            THEN CreateKeys(p, request, NameAtHand, env, FALSE)
            ELSE /\ req' = [req EXCEPT ![p] = request]
                 /\ Goto(p, "c_interface")
  /\ UNCHANGED <<configInterface, targetInterface, wireguardInterface, router, custody, nextId, oob, undone, lastToggle, peer_keys>>

\* The request arrives: the name check, then the interface name; when
\* config.json names no interface and none is cached the lookup is sent and
\* awaited, else the handler goes on to key generation and validation, up
\* to the first router call that follows.
CreateBeginFrom(p, traced) ==
  /\ Arrive(p)
  /\ \E name \in Names, addr \in AddrInputs, usePresharedKey \in BOOLEAN,
        env \in GenEnvs :
       LET request == [ReqIdle EXCEPT !.op = "create", !.name = name,
                                      !.allowedIPs = addr, !.addr = addr,
                                      !.usePresharedKey = usePresharedKey,
                                      !.n = nreq + 1]
       IN CASE Trim(name) = << >> ->
                 /\ req' = [req EXCEPT ![p] =
                         [ReqIdle EXCEPT !.op = "create", !.name = name]]
                 /\ Respond(p, 400, {"name_required"}, NoBody)
            [] Trim(name) # << >> /\ InterfaceAtHand ->
                 CreateKeys(p, request, NameAtHand, env, traced)
            [] OTHER ->
                 /\ req' = [req EXCEPT ![p] = request]
                 /\ Goto(p, "c_interface")
  /\ UNCHANGED <<configInterface, targetInterface, wireguardInterface, router, custody, nextId, oob, undone, lastToggle, peer_keys>>

CreateBegin(p) == CreateBeginFrom(p, FALSE)

\* The interface lookup of the handler is answered: the answer is cached
\* and used, and the handler goes on to key generation; a failed lookup ends
\* the request.
CreateInterfaceFrom(p, traced) ==
  /\ pc[p] = "c_interface"
  /\ \E iface \in CallOutcomes, env \in GenEnvs :
       LET lookup == getWireGuardInterface(iface)
       IN /\ wireguardInterface' = Cached(lookup)
          /\ IF lookup.ok
               THEN CreateKeys(p, req[p], lookup.name, env, traced)
               ELSE /\ req' = [req EXCEPT ![p] =
                            [ReqIdle EXCEPT !.op = "create", !.name = req[p].name]]
                    /\ Respond(p, 500, {"interface"}, NoBody)
  /\ UNCHANGED <<configInterface, targetInterface, router, custody, nextId, nreq, oob, undone, lastToggle, peer_keys, pre>>

CreateInterface(p) == CreateInterfaceFrom(p, FALSE)

\* A getPeers whose print is answered and whose interface lookup is still to
\* be awaited: the handler keeps the answer and waits.
AwaitInterface(p, got, label) ==
  /\ req' = [req EXCEPT ![p].peers = got.peers]
  /\ Goto(p, label)

\* getNextAvailableIP from the return of getPeers on
getNextAvailableIP(p, listed) ==
  LET ip == NextAvailableIP(listed.peers)
  IN IF listed.ok /\ ip # NoAddr
       THEN /\ req' = [req EXCEPT ![p].addr = ip, ![p].listed = listed.peers,
                                  ![p].peers = << >>]
            /\ Goto(p, "c_create")
       ELSE /\ req' = [req EXCEPT ![p].listed = listed.peers, ![p].peers = << >>]
            /\ Respond(p, 500,
                       {"next_ip", IF listed.ok THEN "no_ip" ELSE "get_peers"},
                       NoBody)

\* allowedIPs || await getNextAvailableIP(), up to the first await of its
\* getPeers that is not answered from the cache
CreateAllocate(p) ==
  /\ pc[p] = "c_alloc"
  /\ \E outcome \in GetPeersOutcomes :
       LET got == getPeers(outcome)
       IN IF got.pending THEN AwaitInterface(p, got, "c_alloc_if")
          ELSE getNextAvailableIP(p, got.listed)
  /\ UNCHANGED <<configInterface, targetInterface, wireguardInterface, router, custody, nextId, nreq, oob, undone, lastToggle, peer_keys, pre>>

\* the interface lookup of that getPeers, the filter and the scan
CreateAllocateInterface(p) ==
  /\ pc[p] = "c_alloc_if"
  /\ \E outcome \in GetPeersOutcomes :
       /\ wireguardInterface' = Cached(getWireGuardInterface(outcome))
       /\ getNextAvailableIP(p, getPeersFilter(req[p].peers, outcome))
  /\ UNCHANGED <<configInterface, targetInterface, router, custody, nextId, nreq, oob, undone, lastToggle, peer_keys, pre>>

\* How the router's answer to /interface/wireguard/peers/add ends: an error
\* (nothing added), the peer added and its identifier in the answer (ret,
\* [0]['.id'], ['.id'] or after), or the peer added and no identifier.
AddOutcomes == {"error", "id", "noid"}

\* MikrotikAPI.createPeer up to the router's answer; the server always names
\* the interface in peerData.
createPeer(p, peerData, saveLabel, lookupLabel) ==
  \E outcome \in AddOutcomes :
    IF outcome = "error"
      THEN /\ Respond(p, 500, {"create"}, NoBody)
           /\ UNCHANGED <<router, nextId, req>>
      ELSE /\ router' = With(router, nextId, peerData)
           /\ nextId' = nextId + 1
           /\ IF outcome = "id"
                THEN /\ req' = [req EXCEPT ![p].newId = nextId]
                     /\ Goto(p, saveLabel)
                ELSE /\ req' = req
                     /\ Goto(p, lookupLabel)

\* MikrotikAPI.createPeer when the answer held no identifier, from the
\* return of getPeers on: take the peer with the public key and comment just
\* sent.
FindCreatedPeer(p, listed, saveLabel) ==
  LET newPeer == FindNewPeer(listed.peers, req[p].keys.pub, Trim(req[p].name))
  IN IF listed.ok /\ newPeer # NoId
       THEN /\ req' = [req EXCEPT ![p].newId = newPeer, ![p].relisted = TRUE,
                                  ![p].listed = listed.peers, ![p].peers = << >>]
            /\ Goto(p, saveLabel)
       ELSE /\ req' = [req EXCEPT ![p].relisted = TRUE, ![p].listed = listed.peers,
                                  ![p].peers = << >>]
            /\ Respond(p, 500, {"create", IF listed.ok THEN "no_id" ELSE "get_peers"},
                       NoBody)

\* MikrotikAPI.createPeer when the answer held no identifier: list the
\* peers, up to the first await of getPeers that is not answered from the
\* cache.
createPeerLookup(p, saveLabel, interfaceLabel) ==
  \E outcome \in GetPeersOutcomes :
    LET got == getPeers(outcome)
    IN IF got.pending THEN AwaitInterface(p, got, interfaceLabel)
       ELSE FindCreatedPeer(p, got.listed, saveLabel)

\* the interface lookup of that getPeers, the filter and the search
createPeerLookupInterface(p, saveLabel) ==
  \E outcome \in GetPeersOutcomes :
    /\ wireguardInterface' = Cached(getWireGuardInterface(outcome))
    /\ FindCreatedPeer(p, getPeersFilter(req[p].peers, outcome), saveLabel)

\* Mutant of CreateRouterAdd: the comment sent is the name as received, not
\* name.trim().
CreateRouterAddUntrimmed(p) ==
  /\ pc[p] = "c_create"
  /\ createPeer(p, Peer(req[p].interfaceName, req[p].keys.pub, req[p].addr,
                        req[p].name, FALSE, req[p].keys.psk), "c_save", "c_lookup")
  /\ UNCHANGED <<configInterface, targetInterface, wireguardInterface, custody, nreq, oob, undone, lastToggle, peer_keys, pre>>

\* Mutant of CreateRouterAdd: the private key is sent to the router, as the
\* preshared key of the peer.
CreateRouterAddSendsPrivate(p) ==
  /\ pc[p] = "c_create"
  /\ createPeer(p, Peer(req[p].interfaceName, req[p].keys.pub, req[p].addr,
                        Trim(req[p].name), FALSE, req[p].keys.priv),
                "c_save", "c_lookup")
  /\ UNCHANGED <<configInterface, targetInterface, wireguardInterface, custody, nreq, oob, undone, lastToggle, peer_keys, pre>>

\* const mikrotikId = await mikrotik.createPeer(peerData)
CreateRouterAdd(p) ==
  /\ pc[p] = "c_create"
  /\ createPeer(p, Peer(req[p].interfaceName, req[p].keys.pub, req[p].addr,
                        Trim(req[p].name), FALSE, req[p].keys.psk),
                "c_save", "c_lookup")
  /\ UNCHANGED <<configInterface, targetInterface, wireguardInterface, custody, nreq, oob, undone, lastToggle, peer_keys, pre>>

\* Mutant of CreateRouterLookup: when no identifier is found, the peer just
\* added (the last the router added) is removed before the error is sent.
CreateRouterLookupCleansUp(p) ==
  /\ pc[p] = "c_lookup"
  /\ \E outcome \in GetPeersOutcomes :
       LET got == getPeers(outcome)
           listed == got.listed
           newPeer == FindNewPeer(listed.peers, req[p].keys.pub, Trim(req[p].name))
       IN CASE got.pending ->
                 /\ AwaitInterface(p, got, "c_lookup_if")
                 /\ router' = router
            [] ~got.pending /\ listed.ok /\ newPeer # NoId ->
                 /\ req' = [req EXCEPT ![p].newId = newPeer]
                 /\ Goto(p, "c_save")
                 /\ router' = router
            [] OTHER ->
                 /\ req' = req
                 /\ router' = Without(router, nextId - 1)
                 /\ Respond(p, 500, {"create", IF listed.ok THEN "no_id" ELSE "get_peers"},
                            NoBody)
  /\ UNCHANGED <<configInterface, targetInterface, wireguardInterface, custody, nextId, nreq, oob, undone, lastToggle, peer_keys, pre>>

\* createPeer of Create, when the answer held no identifier
CreateRouterLookup(p) ==
  /\ pc[p] = "c_lookup"
  /\ createPeerLookup(p, "c_save", "c_lookup_if")
  /\ UNCHANGED <<configInterface, targetInterface, wireguardInterface, router, custody, nextId, nreq, oob, undone, lastToggle, peer_keys, pre>>

\* the interface lookup of the getPeers of that createPeer
CreateRouterLookupInterface(p) ==
  /\ pc[p] = "c_lookup_if"
  /\ createPeerLookupInterface(p, "c_save")
  /\ UNCHANGED <<configInterface, targetInterface, router, custody, nextId, nreq, oob, undone, lastToggle, peer_keys, pre>>

\* await database.savePeerKeys(dbData), then the response; a rejected save
\* goes to the catch (dbError) block.
CreateSave(p) ==
  /\ pc[p] = "c_save"
  /\ \E outcome \in CallOutcomes :
       LET dbData == Row(Trim(req[p].name), req[p].keys.priv, req[p].keys.psk,
                         req[p].addr)
       IN IF outcome = "ok" /\ RowAccepted(dbData)
            THEN /\ custody' = savePeerKeys(custody, req[p].newId, dbData)
                 /\ Respond(p, 200, {},
                      [NoBody EXCEPT !.id = req[p].newId, !.name = Trim(req[p].name),
                                     !.pub = req[p].keys.pub, !.addr = req[p].addr,
                                     !.enabled = TRUE,
                                     !.hasPsk = (req[p].keys.psk # NoKey),
                                     !.hasStoredKeys = TRUE])
            ELSE /\ custody' = custody
                 /\ Goto(p, "c_undo")
  /\ UNCHANGED <<configInterface, targetInterface, wireguardInterface, router, nextId, nreq, oob, undone, lastToggle, peer_keys, req, pre>>

\* MikrotikAPI.deletePeer: the router removes the peer, or answers with an
\* error (as it does for an identifier it does not have).
RouterRemoves(id, outcome) == outcome = "ok" /\ id \in DOMAIN router

\* catch (dbError): delete the peer just created, then
\* throw new Error(`Failed to save peer keys: ${dbError.message}`)
CreateUndo(p) ==
  /\ pc[p] = "c_undo"
  /\ \E outcome \in CallOutcomes :
       /\ router' = IF RouterRemoves(req[p].newId, outcome)
                      THEN Without(router, req[p].newId) ELSE router
       /\ req' = [req EXCEPT ![p].routerDelete =
                     IF RouterRemoves(req[p].newId, outcome) THEN "ok" ELSE "failed"]
       /\ undone' = IF RouterRemoves(req[p].newId, outcome)
                      THEN undone \cup {Trim(req[p].name)} ELSE undone
  /\ Respond(p, 500, {"save"}, NoBody)
  /\ UNCHANGED <<configInterface, targetInterface, wireguardInterface, custody, nextId, nreq, oob, lastToggle, peer_keys, pre>>

(***************************************************************************)
(* PUT /api/peers/:id (Update).                                            *)
(***************************************************************************)
\* Up to the first router or database call: the name check and, for a
\* complete regeneration or a preshared-key update, key generation and
\* validation.
UpdateBegin(p) ==
  /\ Arrive(p)
  /\ \E id \in IdInputs, name \in Names, addr \in UpdateAddrInputs, enabled \in BOOLEAN,
        wantPsk \in BOOLEAN, wantRegen \in BOOLEAN,
        env \in GenEnvs :
       LET generates == wantRegen \/ wantPsk
           g == generateKeys(TRUE, env, nreq + 1)
           keys == g.keys
           err == CASE Trim(name) = << >> -> "name_required"
                    [] ~generates -> "none"
                    [] ~g.ok -> "keygen_unavailable"
                    [] wantRegen /\
                         (~isValidWireGuardKey(JsValue(keys.pub)) \/ ~isValidWireGuardKey(JsValue(keys.psk))) ->
                         "invalid_keys"
                    [] ~wantRegen /\ ~isValidWireGuardKey(JsValue(keys.psk)) ->
                         "invalid_preshared_key"
                    [] OTHER -> "none"
           op == IF wantRegen THEN "regenerate" ELSE "update"
       IN IF err = "none"
               THEN /\ req' = [req EXCEPT ![p] =
                            [ReqIdle EXCEPT !.op = op, !.id = id, !.name = name,
                               !.allowedIPs = addr, !.addr = addr,
                               !.enabled = enabled,
                               !.updPsk = (~wantRegen /\ wantPsk),
                               !.keys = IF generates THEN keys ELSE NoKeys]]
                    /\ Goto(p, CASE wantRegen -> "r_delete"
                                  [] wantPsk -> "u_dbpsk"
                                  [] OTHER -> "u_router")
               ELSE /\ req' = [req EXCEPT ![p] =
                            [ReqIdle EXCEPT !.op = op, !.id = id, !.name = name]]
                    /\ Respond(p, IF err = "name_required" THEN 400 ELSE 500,
                               {err}, NoBody)
  /\ UNCHANGED <<configInterface, targetInterface, wireguardInterface, router, custody, nextId, oob, undone, lastToggle, peer_keys>>

\* Complete regeneration: await mikrotik.deletePeer(id)
RegenRouterDelete(p) ==
  /\ pc[p] = "r_delete"
  /\ \E outcome \in CallOutcomes :
       IF RouterRemoves(req[p].id, outcome)
         THEN /\ router' = Without(router, req[p].id)
              /\ Goto(p, "r_dbdelete")
         ELSE /\ router' = router
              /\ Respond(p, 500, {"delete"}, NoBody)
  /\ UNCHANGED <<configInterface, targetInterface, wireguardInterface, custody, nextId, nreq, oob, undone, lastToggle, peer_keys, req, pre>>

\* Mutant of RegenDbDelete: the old row is not deleted.
RegenDbDeleteSkipped(p) ==
  /\ pc[p] = "r_dbdelete"
  /\ \E outcome \in CallOutcomes :
       CASE outcome = "ok" /\ InterfaceAtHand ->
              /\ req' = [req EXCEPT ![p].interfaceName = NameAtHand]
              /\ Goto(p, "r_create")
         [] outcome = "ok" /\ ~InterfaceAtHand ->
              /\ req' = req
              /\ Goto(p, "r_interface")
         [] OTHER ->
              /\ req' = req
              /\ Respond(p, 500, {"db_delete"}, NoBody)
  /\ UNCHANGED <<configInterface, targetInterface, wireguardInterface, router, custody, nextId, nreq, oob, undone, lastToggle, peer_keys, pre>>

\* Complete regeneration: await database.deletePeerKeys(id), and on to
\* createPeer when the interface name needs no router call.
RegenDbDelete(p) ==
  /\ pc[p] = "r_dbdelete"
  /\ \E outcome \in CallOutcomes :
       CASE outcome = "ok" /\ InterfaceAtHand ->
              /\ custody' = deletePeerKeys(custody, req[p].id)
              /\ req' = [req EXCEPT ![p].interfaceName = NameAtHand]
              /\ Goto(p, "r_create")
         [] outcome = "ok" /\ ~InterfaceAtHand ->
              /\ custody' = deletePeerKeys(custody, req[p].id)
              /\ req' = req
              /\ Goto(p, "r_interface")
         [] OTHER ->
              /\ custody' = custody
              /\ req' = req
              /\ Respond(p, 500, {"db_delete"}, NoBody)
  /\ UNCHANGED <<configInterface, targetInterface, wireguardInterface, router, nextId, nreq, oob, undone, lastToggle, peer_keys, pre>>

\* Complete regeneration: const interfaceName = config.wireguard?.interfaceName
\* || await mikrotik.getWireGuardInterface(), the lookup awaited
RegenInterface(p) ==
  /\ pc[p] = "r_interface"
  /\ \E iface \in CallOutcomes :
       LET interface == getWireGuardInterface(iface)
       IN /\ wireguardInterface' = Cached(interface)
          /\ IF interface.ok
               THEN /\ req' = [req EXCEPT ![p].interfaceName = interface.name]
                    /\ Goto(p, "r_create")
               ELSE /\ req' = req
                    /\ Respond(p, 500, {"interface"}, NoBody)
  /\ UNCHANGED <<configInterface, targetInterface, router, custody, nextId, nreq, oob, undone, lastToggle, peer_keys, pre>>

\* Complete regeneration: const newId = await mikrotik.createPeer(peerData)
RegenRouterAdd(p) ==
  /\ pc[p] = "r_create"
  /\ createPeer(p, Peer(req[p].interfaceName, req[p].keys.pub, SentAddr(req[p].addr),
                        Trim(req[p].name), ~req[p].enabled, req[p].keys.psk),
                "r_save", "r_lookup")
  /\ UNCHANGED <<configInterface, targetInterface, wireguardInterface, custody, nreq, oob, undone, lastToggle, peer_keys, pre>>

\* createPeer of the regeneration, when the answer held no identifier
RegenRouterLookup(p) ==
  /\ pc[p] = "r_lookup"
  /\ createPeerLookup(p, "r_save", "r_lookup_if")
  /\ UNCHANGED <<configInterface, targetInterface, wireguardInterface, router, custody, nextId, nreq, oob, undone, lastToggle, peer_keys, pre>>

\* the interface lookup of the getPeers of that createPeer
RegenRouterLookupInterface(p) ==
  /\ pc[p] = "r_lookup_if"
  /\ createPeerLookupInterface(p, "r_save")
  /\ UNCHANGED <<configInterface, targetInterface, router, custody, nextId, nreq, oob, undone, lastToggle, peer_keys, pre>>

\* Complete regeneration: await database.savePeerKeys({...}), then the
\* response.
\* Mutant of RegenSave: a failed save removes the peer just created, as the
\* Create handler does.
RegenSaveCleansUp(p) ==
  /\ pc[p] = "r_save"
  /\ \E outcome \in CallOutcomes :
       LET dbData == Row(Trim(req[p].name), req[p].keys.priv, req[p].keys.psk,
                         req[p].addr)
       IN IF outcome = "ok" /\ RowAccepted(dbData)
            THEN /\ custody' = savePeerKeys(custody, req[p].newId, dbData)
                 /\ router' = router
                 /\ Respond(p, 200, {},
                      [NoBody EXCEPT !.id = req[p].newId, !.name = Trim(req[p].name),
                                     !.pub = req[p].keys.pub, !.addr = req[p].addr,
                                     !.enabled = req[p].enabled, !.hasPsk = TRUE,
                                     !.hasStoredKeys = TRUE])
            ELSE /\ custody' = custody
                 /\ router' = Without(router, req[p].newId)
                 /\ Respond(p, 500, {"save"}, NoBody)
  /\ UNCHANGED <<configInterface, targetInterface, wireguardInterface, nextId, nreq, oob, undone, lastToggle, peer_keys, req, pre>>

RegenSave(p) ==
  /\ pc[p] = "r_save"
  /\ \E outcome \in CallOutcomes :
       LET dbData == Row(Trim(req[p].name), req[p].keys.priv, req[p].keys.psk,
                         req[p].addr)
       IN IF outcome = "ok" /\ RowAccepted(dbData)
            THEN /\ custody' = savePeerKeys(custody, req[p].newId, dbData)
                 /\ Respond(p, 200, {},
                      [NoBody EXCEPT !.id = req[p].newId, !.name = Trim(req[p].name),
                                     !.pub = req[p].keys.pub, !.addr = req[p].addr,
                                     !.enabled = req[p].enabled, !.hasPsk = TRUE,
                                     !.hasStoredKeys = TRUE])
            ELSE /\ custody' = custody
                 /\ Respond(p, 500, {"save"}, NoBody)
  /\ UNCHANGED <<configInterface, targetInterface, wireguardInterface, router, nextId, nreq, oob, undone, lastToggle, peer_keys, req, pre>>

\* Regular update: await database.updatePresharedKey(id, presharedKey)
\* Mutant of UpdateDbPsk: the new preshared key is not written to the row.
UpdateDbPskSkipped(p) ==
  /\ pc[p] = "u_dbpsk"
  /\ \E outcome \in CallOutcomes :
       IF outcome = "ok"
         THEN /\ custody' = custody
              /\ Goto(p, "u_router")
         ELSE /\ custody' = custody
              /\ Respond(p, 500, {"db_update"}, NoBody)
  /\ UNCHANGED <<configInterface, targetInterface, wireguardInterface, router, nextId, nreq, oob, undone, lastToggle, peer_keys, req, pre>>

UpdateDbPsk(p) ==
  /\ pc[p] = "u_dbpsk"
  /\ \E outcome \in CallOutcomes :
       IF outcome = "ok"
         THEN /\ custody' = updatePresharedKey(custody, req[p].id, req[p].keys.psk)
              /\ Goto(p, "u_router")
         ELSE /\ custody' = custody
              /\ Respond(p, 500, {"db_update"}, NoBody)
  /\ UNCHANGED <<configInterface, targetInterface, wireguardInterface, router, nextId, nreq, oob, undone, lastToggle, peer_keys, req, pre>>

\* MikrotikAPI.updatePeer: /interface/wireguard/peers/set of the fields sent.
RouterSets(id, outcome) == outcome = "ok" /\ id \in DOMAIN router

\* Mutant of UpdateRouter: the new name and address are written to the row
\* as well.
UpdateRouterSyncsStore(p) ==
  /\ pc[p] = "u_router"
  /\ \E outcome \in CallOutcomes :
       LET id == req[p].id
           newPresharedKey == IF req[p].updPsk THEN req[p].keys.psk ELSE NoKey
       IN IF RouterSets(id, outcome)
            THEN /\ router' = [router EXCEPT ![id] =
                        [@ EXCEPT !.comment = Trim(req[p].name),
                                  !.addr = SentAddr(req[p].addr),
                                  !.disabled = ~req[p].enabled,
                                  !.psk = IF req[p].updPsk THEN req[p].keys.psk ELSE @]]
                 /\ custody' = [i \in DOMAIN custody |->
                        IF i = id
                          THEN [custody[i] EXCEPT !.name = Trim(req[p].name),
                                                  !.addr = req[p].addr]
                          ELSE custody[i]]
                 /\ Respond(p, 200, {},
                      [NoBody EXCEPT !.id = id, !.name = Trim(req[p].name),
                                     !.addr = req[p].addr, !.enabled = req[p].enabled,
                                     !.hasPsk = (newPresharedKey # NoKey),
                                     !.hasStoredKeys = TRUE,
                                     !.newPsk = newPresharedKey])
            ELSE /\ router' = router
                 /\ custody' = custody
                 /\ Respond(p, 500, {"update"}, NoBody)
  /\ UNCHANGED <<configInterface, targetInterface, wireguardInterface, nextId, nreq, oob, undone, lastToggle, peer_keys, req, pre>>

\* Regular update: await mikrotik.updatePeer(id, updateData), then the
\* response.
UpdateRouter(p) ==
  /\ pc[p] = "u_router"
  /\ \E outcome \in CallOutcomes :
       LET id == req[p].id
           newPresharedKey == IF req[p].updPsk THEN req[p].keys.psk ELSE NoKey
       IN IF RouterSets(id, outcome)
            THEN /\ router' = [router EXCEPT ![id] =
                        [@ EXCEPT !.comment = Trim(req[p].name),
                                  !.addr = SentAddr(req[p].addr),
                                  !.disabled = ~req[p].enabled,
                                  !.psk = IF req[p].updPsk THEN req[p].keys.psk ELSE @]]
                 /\ Respond(p, 200, {},
                      [NoBody EXCEPT !.id = id, !.name = Trim(req[p].name),
                                     !.addr = req[p].addr, !.enabled = req[p].enabled,
                                     !.hasPsk = (newPresharedKey # NoKey),
                                     !.hasStoredKeys = TRUE,
                                     !.newPsk = newPresharedKey])
            ELSE /\ router' = router
                 /\ Respond(p, 500, {"update"}, NoBody)
  /\ UNCHANGED <<configInterface, targetInterface, wireguardInterface, custody, nextId, nreq, oob, undone, lastToggle, peer_keys, req, pre>>

(***************************************************************************)
(* DELETE /api/peers/:id (Delete).                                         *)
(***************************************************************************)
\* Mutant of DeleteRouter: a failed router delete is not caught and ends the
\* request with an error.
DeleteRouterStrict(p) ==
  /\ pc[p] = "d_router"
  /\ \E outcome \in CallOutcomes :
       LET id == req[p].id
       IN /\ router' = IF RouterRemoves(id, outcome) THEN Without(router, id) ELSE router
          /\ req' = [req EXCEPT ![p].routerDelete = IF RouterRemoves(id, outcome)
                                                      THEN "ok" ELSE "failed"]
          /\ IF RouterRemoves(id, outcome) THEN Goto(p, "d_db")
             ELSE Respond(p, 500, {"delete"}, NoBody)
  /\ UNCHANGED <<configInterface, targetInterface, wireguardInterface, custody, nextId, nreq, oob, undone, lastToggle, peer_keys, pre>>

\* The request arrives: const { id } = req.params, and mikrotik.deletePeer(id)
\* is sent and awaited.
DeleteBegin(p) ==
  /\ Arrive(p)
  /\ \E id \in IdInputs :
       req' = [req EXCEPT ![p] = [ReqIdle EXCEPT !.op = "delete", !.id = id]]
  /\ Goto(p, "d_router")
  /\ UNCHANGED <<configInterface, targetInterface, wireguardInterface, router, custody, nextId, oob, undone, lastToggle, peer_keys>>

\* try { await mikrotik.deletePeer(id) } catch { /* logged */ }: the remove
\* is answered, and database.deletePeerKeys(id) is sent whatever the answer
DeleteRouter(p) ==
  /\ pc[p] = "d_router"
  /\ \E outcome \in CallOutcomes :
       LET id == req[p].id
       IN /\ router' = IF RouterRemoves(id, outcome) THEN Without(router, id) ELSE router
          /\ req' = [req EXCEPT ![p].routerDelete = IF RouterRemoves(id, outcome)
                                                      THEN "ok" ELSE "failed"]
  /\ Goto(p, "d_db")
  /\ UNCHANGED <<configInterface, targetInterface, wireguardInterface, custody, nextId, nreq, oob, undone, lastToggle, peer_keys, pre>>

\* await database.deletePeerKeys(id), then the response
DeleteDb(p) ==
  /\ pc[p] = "d_db"
  /\ \E outcome \in CallOutcomes :
       IF outcome = "ok"
         THEN /\ custody' = deletePeerKeys(custody, req[p].id)
              /\ Respond(p, 200, {}, NoBody)
         ELSE /\ custody' = custody
              /\ Respond(p, 500, {"db_delete"}, NoBody)
  /\ UNCHANGED <<configInterface, targetInterface, wireguardInterface, router, nextId, nreq, oob, undone, lastToggle, peer_keys, req, pre>>

(***************************************************************************)
(* PATCH /api/peers/:id/toggle (Toggle).                                   *)
(***************************************************************************)
\* MikrotikAPI.getPeer: the peer of that identifier; a throw when the
\* listing fails or holds no such peer.
PeerRead(id, outcome) == outcome = "ok" /\ id \in DOMAIN router

\* The request arrives: const { id } = req.params, and mikrotik.getPeer(id)
\* is sent and awaited.
ToggleBegin(p) ==
  /\ Arrive(p)
  /\ \E id \in IdInputs :
       req' = [req EXCEPT ![p] = [ReqIdle EXCEPT !.op = "toggle", !.id = id]]
  /\ Goto(p, "t_read")
  /\ UNCHANGED <<configInterface, targetInterface, wireguardInterface, router, custody, nextId, oob, undone, lastToggle, peer_keys>>

\* Mutant of ToggleRead: getPeer answers undefined for an identifier that
\* is not there and the handler goes on to the write.
ToggleReadUnchecked(p) ==
  /\ pc[p] = "t_read"
  /\ \E outcome \in CallOutcomes :
       LET id == req[p].id
       IN IF outcome = "ok"
            THEN /\ req' = [req EXCEPT ![p].curDisabled = IF id \in DOMAIN router
                                                            THEN router[id].disabled
                                                            ELSE FALSE]
                 /\ Goto(p, "t_write")
            ELSE /\ req' = req
                 /\ Respond(p, 500, {"get_peer"}, NoBody)
  /\ UNCHANGED <<configInterface, targetInterface, wireguardInterface, router, custody, nextId, nreq, oob, undone, lastToggle, peer_keys, pre>>

\* const currentPeer = await mikrotik.getPeer(id): the print is answered
ToggleRead(p) ==
  /\ pc[p] = "t_read"
  /\ \E outcome \in CallOutcomes :
       LET id == req[p].id
       IN IF PeerRead(id, outcome)
            THEN /\ req' = [req EXCEPT ![p].curDisabled = router[id].disabled]
                 /\ Goto(p, "t_write")
            ELSE /\ req' = req
                 /\ Respond(p, 500, {"get_peer"}, NoBody)
  /\ UNCHANGED <<configInterface, targetInterface, wireguardInterface, router, custody, nextId, nreq, oob, undone, lastToggle, peer_keys, pre>>

\* Mutant of ToggleWrite: the router flips the flag it holds at the time of
\* the write, not the flag the handler read.
ToggleWriteFlipsCurrent(p) ==
  /\ pc[p] = "t_write"
  /\ \E outcome \in CallOutcomes :
       IF RouterSets(req[p].id, outcome)
         THEN /\ router' = [router EXCEPT ![req[p].id].disabled = ~@]
              /\ Goto(p, "t_reread")
         ELSE /\ router' = router
              /\ Respond(p, 500, {"update"}, NoBody)
  /\ UNCHANGED <<configInterface, targetInterface, wireguardInterface, custody, nextId, nreq, oob, undone, lastToggle, peer_keys, req, pre>>

\* Mutant of ToggleWrite: the peer is disabled whatever flag was read.
ToggleWriteDisables(p) ==
  /\ pc[p] = "t_write"
  /\ \E outcome \in CallOutcomes :
       IF RouterSets(req[p].id, outcome)
         THEN /\ router' = [router EXCEPT ![req[p].id].disabled = TRUE]
              /\ Goto(p, "t_reread")
         ELSE /\ router' = router
              /\ Respond(p, 500, {"update"}, NoBody)
  /\ UNCHANGED <<configInterface, targetInterface, wireguardInterface, custody, nextId, nreq, oob, undone, lastToggle, peer_keys, req, pre>>

\* await mikrotik.updatePeer(id, { disabled: newDisabledStatus })
ToggleWrite(p) ==
  /\ pc[p] = "t_write"
  /\ \E outcome \in CallOutcomes :
       IF RouterSets(req[p].id, outcome)
         THEN /\ router' = [router EXCEPT ![req[p].id].disabled = ~req[p].curDisabled]
              /\ Goto(p, "t_reread")
         ELSE /\ router' = router
              /\ Respond(p, 500, {"update"}, NoBody)
  /\ UNCHANGED <<configInterface, targetInterface, wireguardInterface, custody, nextId, nreq, oob, undone, lastToggle, peer_keys, req, pre>>

\* peer.comment || 'Unnamed'
Unnamed == <<"U", "n", "n", "a", "m", "e", "d">>
PeerName(peer) == IF peer.comment = << >> THEN Unnamed ELSE peer.comment

\* const updatedPeer = await mikrotik.getPeer(id), then the response, with
\* name: updatedPeer.comment || 'Unnamed'
ToggleReread(p) ==
  /\ pc[p] = "t_reread"
  /\ \E outcome \in CallOutcomes :
       IF PeerRead(req[p].id, outcome)
         THEN Respond(p, 200, {},
                [NoBody EXCEPT !.id = req[p].id,
                               !.name = PeerName(router[req[p].id]),
                               !.enabled = ~router[req[p].id].disabled])
         ELSE Respond(p, 500, {"get_peer"}, NoBody)
  /\ UNCHANGED <<configInterface, targetInterface, wireguardInterface, router, custody, nextId, nreq, oob, undone, lastToggle, peer_keys, req, pre>>

(***************************************************************************)
(* POST /api/cleanup-orphaned-peers (cleanupOrphanedPeers).                *)
(***************************************************************************)
\* cleanupOrphanedPeers returned n (its catch block returns 0): the cleanup
\* route answers 200 with cleanedCount; GET /api/peers?cleanup=true drops
\* the number and goes on to list the peers.
CleanupReturns(p, op, n) ==
  IF op = "list" THEN Goto(p, "l_peers")
  ELSE Respond(p, 200, {}, [NoBody EXCEPT !.count = n])

\* cleanupOrphanedPeers from the return of its getPeers on: `started` is the
\* request so far; activePeerIds are the identifiers of the peers returned.
CleanupListed(p, started, listed) ==
  IF listed.ok
    THEN /\ req' = [req EXCEPT ![p] =
                 [started EXCEPT !.active = DOMAIN listed.peers,
                                 !.fault = IF listed.caught THEN "notfound" ELSE "none",
                                 !.peers = << >>]]
         /\ Goto(p, "k_stored")
    ELSE /\ req' = [req EXCEPT ![p] = [started EXCEPT !.fault = "error",
                                                      !.peers = << >>]]
         /\ CleanupReturns(p, started.op, 0)

\* The request arrives, at the cleanup route or at
\* GET /api/peers?cleanup=true: cleanupOrphanedPeers is called, and the print
\* of its mikrotik.getPeers() is sent and awaited.
CleanupBegin(p) ==
  /\ Arrive(p)
  /\ \E op \in {"cleanup", "list"} :
       req' = [req EXCEPT ![p] = [ReqIdle EXCEPT !.op = op, !.cleanup = TRUE]]
  /\ Goto(p, "k_list")
  /\ UNCHANGED <<configInterface, targetInterface, wireguardInterface, router, custody, nextId, oob, undone, lastToggle, peer_keys>>

\* const mikrotikPeers = await mikrotik.getPeers(), the first call of
\* cleanupOrphanedPeers: its print is answered, up to the first await of
\* getPeers that is not answered from the cache
CleanupList(p) ==
  /\ pc[p] = "k_list"
  /\ \E outcome \in GetPeersOutcomes :
       LET got == getPeers(outcome)
       IN IF got.pending THEN AwaitInterface(p, got, "k_list_if")
          ELSE CleanupListed(p, req[p], got.listed)
  /\ UNCHANGED <<configInterface, targetInterface, wireguardInterface, router, custody, nextId, nreq, oob, undone, lastToggle, peer_keys, pre>>

\* the interface lookup of that getPeers and the filter
CleanupListInterface(p) ==
  /\ pc[p] = "k_list_if"
  /\ \E outcome \in GetPeersOutcomes :
       /\ wireguardInterface' = Cached(getWireGuardInterface(outcome))
       /\ CleanupListed(p, req[p], getPeersFilter(req[p].peers, outcome))
  /\ UNCHANGED <<configInterface, targetInterface, router, custody, nextId, nreq, oob, undone, lastToggle, peer_keys, pre>>

\* const storedKeys = await database.getAllPeersKeyStatus(), and the filter
\* that keeps the rows whose mikrotik_id is not among the active identifiers
CleanupStored(p) ==
  /\ pc[p] = "k_stored"
  /\ \E outcome \in CallOutcomes :
       LET orphanedEntries == {i \in StoredIds(custody) : i \notin req[p].active}
       IN IF outcome = "ok" /\ orphanedEntries # {}
            THEN /\ req' = [req EXCEPT ![p].orphans = orphanedEntries,
                                       ![p].nOrphans = Cardinality(orphanedEntries)]
                 /\ Goto(p, "k_delete")
            ELSE /\ req' = [req EXCEPT ![p].fault = IF outcome = "ok" THEN @ ELSE "error"]
                 /\ CleanupReturns(p, req[p].op, 0)
  /\ UNCHANGED <<configInterface, targetInterface, wireguardInterface, router, custody, nextId, nreq, oob, undone, lastToggle, peer_keys, pre>>

\* Mutant of CleanupDelete: the loop returns after its first turn.
CleanupDeleteFirstOnly(p) ==
  /\ pc[p] = "k_delete"
  /\ \E entry \in req[p].orphans, outcome \in CallOutcomes :
       IF outcome = "ok"
         THEN /\ custody' = deletePeerKeys(custody, entry)
              /\ req' = [req EXCEPT ![p].orphans = @ \ {entry}]
              /\ CleanupReturns(p, req[p].op, req[p].nOrphans)
         ELSE /\ custody' = custody
              /\ req' = [req EXCEPT ![p].fault = "error"]
              /\ CleanupReturns(p, req[p].op, 0)
  /\ UNCHANGED <<configInterface, targetInterface, wireguardInterface, router, nextId, nreq, oob, undone, lastToggle, peer_keys, pre>>

\* for (const entry of orphanedEntries) await database.deletePeerKeys(...):
\* one turn of the loop; after the last, return orphanedEntries.length
CleanupDelete(p) ==
  /\ pc[p] = "k_delete"
  /\ \E entry \in req[p].orphans, outcome \in CallOutcomes :
       IF outcome = "ok"
         THEN /\ custody' = deletePeerKeys(custody, entry)
              /\ req' = [req EXCEPT ![p].orphans = @ \ {entry}]
              /\ IF req[p].orphans = {entry}
                   THEN CleanupReturns(p, req[p].op, req[p].nOrphans)
                   ELSE Goto(p, "k_delete")
         ELSE /\ custody' = custody
              /\ req' = [req EXCEPT ![p].fault = "error"]
              /\ CleanupReturns(p, req[p].op, 0)
  /\ UNCHANGED <<configInterface, targetInterface, wireguardInterface, router, nextId, nreq, oob, undone, lastToggle, peer_keys, pre>>

(***************************************************************************)
(* GET /api/peers (ListPeers).                                             *)
(***************************************************************************)
\* One entry of formattedPeers.
FormattedPeer(id, peer, storedIds) ==
  [id |-> id,
   name |-> PeerName(peer),
   pub |-> peer.pub, addr |-> peer.addr, enabled |-> ~peer.disabled,
   hasPsk |-> (peer.psk # NoKey),
   hasStoredKeys |-> (id \in storedIds)]

\* Mutant of ListBegin: the orphaned rows are cleaned up although cleanup
\* was not asked for.
ListBeginCleans(p) ==
  /\ Arrive(p)
  /\ req' = [req EXCEPT ![p] =
               [ReqIdle EXCEPT !.op = "list", !.active = DOMAIN router]]
  /\ Goto(p, "k_stored")
  /\ UNCHANGED <<configInterface, targetInterface, wireguardInterface, router, custody, nextId, oob, undone, lastToggle, peer_keys>>

\* const cleanup = req.query.cleanup === 'true', here false: the handler
\* goes straight to the listing.
ListBegin(p) ==
  /\ Arrive(p)
  /\ req' = [req EXCEPT ![p] = [ReqIdle EXCEPT !.op = "list"]]
  /\ Goto(p, "l_peers")
  /\ UNCHANGED <<configInterface, targetInterface, wireguardInterface, router, custody, nextId, oob, undone, lastToggle, peer_keys>>

\* GET /api/peers from the return of its getPeers on
PeersListed(p, listed) ==
  IF listed.ok
    THEN /\ req' = [req EXCEPT ![p].listed = listed.peers, ![p].peers = << >>]
         /\ Goto(p, "l_stored")
    ELSE /\ req' = [req EXCEPT ![p].peers = << >>]
         /\ Respond(p, 500, {"get_peers"}, NoBody)

\* const peers = await mikrotik.getPeers(), up to the first await of
\* getPeers that is not answered from the cache
ListRouter(p) ==
  /\ pc[p] = "l_peers"
  /\ \E outcome \in GetPeersOutcomes :
       LET got == getPeers(outcome)
       IN IF got.pending THEN AwaitInterface(p, got, "l_peers_if")
          ELSE PeersListed(p, got.listed)
  /\ UNCHANGED <<configInterface, targetInterface, wireguardInterface, router, custody, nextId, nreq, oob, undone, lastToggle, peer_keys, pre>>

\* the interface lookup of that getPeers and the filter
ListRouterInterface(p) ==
  /\ pc[p] = "l_peers_if"
  /\ \E outcome \in GetPeersOutcomes :
       /\ wireguardInterface' = Cached(getWireGuardInterface(outcome))
       /\ PeersListed(p, getPeersFilter(req[p].peers, outcome))
  /\ UNCHANGED <<configInterface, targetInterface, router, custody, nextId, nreq, oob, undone, lastToggle, peer_keys, pre>>

\* const storedKeys = await database.getAllPeersKeyStatus(), then
\* res.json(formattedPeers)
ListStored(p) ==
  /\ pc[p] = "l_stored"
  /\ \E outcome \in CallOutcomes :
       IF outcome = "ok"
         THEN Respond(p, 200, {},
                [NoBody EXCEPT !.peers =
                   [i \in DOMAIN req[p].listed |->
                      FormattedPeer(i, req[p].listed[i], StoredIds(custody))]])
         ELSE Respond(p, 500, {"db_list"}, NoBody)
  /\ UNCHANGED <<configInterface, targetInterface, wireguardInterface, router, custody, nextId, nreq, oob, undone, lastToggle, peer_keys, req, pre>>

(***************************************************************************)
(* GET /api/peers/:id/config (ExportConfig), GET /api/server-info.         *)
(***************************************************************************)
\* The public key of the router's WireGuard interface.
ServerKey == Key("server", 0)
\* How mikrotik.getServerInfo() ends: the interface with its public key,
\* no interface or no public key on it, or a throw.
ServerInfoOutcomes == {"ok", "nokey", "error"}
getServerInfo(outcome) ==
  [ok |-> outcome # "error",
   publicKey |-> IF outcome = "ok" THEN ServerKey ELSE NoKey]

\* One line of the config document: its key and its value, a key string
\* (k), an address (a) or a fixed or configured text (t).
Line(name, k, a, t) == [name |-> name, k |-> k, a |-> a, t |-> t]
\* Mutant of ConfigContent: the PresharedKey line is written whether or not
\* the row holds a preshared key.
ConfigContentAlwaysPsk(storedKeys, serverPublicKey) ==
  <<Line("PrivateKey", storedKeys.priv, NoAddr, ""),
    Line("Address", NoKey, storedKeys.addr, ""),
    Line("DNS", NoKey, NoAddr, "172.16.0.1"),
    Line("PublicKey", serverPublicKey, NoAddr, ""),
    Line("Endpoint", NoKey, NoAddr, "config.wireguard.serverEndpoint"),
    Line("AllowedIPs", NoKey, NoAddr, "config.wireguard.allowedIPs"),
    Line("PresharedKey", storedKeys.psk, NoAddr, ""),
    Line("PersistentKeepalive", NoKey, NoAddr, "25")>>

\* configContent, without the two section headers
ConfigContent(storedKeys, serverPublicKey) ==
  <<Line("PrivateKey", storedKeys.priv, NoAddr, ""),
    Line("Address", NoKey, storedKeys.addr, ""),
    Line("DNS", NoKey, NoAddr, "172.16.0.1"),
    Line("PublicKey", serverPublicKey, NoAddr, ""),
    Line("Endpoint", NoKey, NoAddr, "config.wireguard.serverEndpoint"),
    Line("AllowedIPs", NoKey, NoAddr, "config.wireguard.allowedIPs")>>
  \o (IF storedKeys.psk # NoKey
        THEN <<Line("PresharedKey", storedKeys.psk, NoAddr, "")>> ELSE << >>)
  \o <<Line("PersistentKeepalive", NoKey, NoAddr, "25")>>
\* storedKeys.name.replace(/[^a-zA-Z0-9-_]/g, '_'), 'peer' for a blank name
FileChars ==
  {"a", "b", "c", "d", "e", "f", "g", "h", "i", "j", "k", "l", "m",
   "n", "o", "p", "q", "r", "s", "t", "u", "v", "w", "x", "y", "z",
   "A", "B", "C", "D", "E", "F", "G", "H", "I", "J", "K", "L", "M",
   "N", "O", "P", "Q", "R", "S", "T", "U", "V", "W", "X", "Y", "Z",
   "0", "1", "2", "3", "4", "5", "6", "7", "8", "9", "-", "_"}
FileName(name) ==
  IF Trim(name) = << >> THEN <<"p", "e", "e", "r">>
  ELSE [i \in 1 .. Len(name) |-> IF name[i] \in FileChars THEN name[i] ELSE "_"]

\* an :id of the config path; NoId is the text 'undefined' or 'null'
ConfigIdInputs == IdInputs \cup {NoId}

\* Mutant of ConfigRead: a missing row is not noticed and the handler goes
\* on to the server information.
ConfigReadUnchecked(p) ==
  /\ pc[p] = "g_read"
  /\ \E outcome \in CallOutcomes :
       LET id == req[p].id
       IN IF outcome = "error"
            THEN /\ req' = req
                 /\ Respond(p, 500, {"db_get"}, NoBody)
            ELSE /\ req' = [req EXCEPT ![p].row = IF id \in DOMAIN custody
                                                    THEN custody[id] ELSE NoRow]
                 /\ Goto(p, "g_server")
  /\ UNCHANGED <<configInterface, targetInterface, wireguardInterface, router, custody, nextId, nreq, oob, undone, lastToggle, peer_keys, pre>>

\* The request arrives: the identifier check, which answers 400 for
\* 'undefined' and 'null'; else database.getPeerKeys(id) is sent and awaited.
ConfigBegin(p) ==
  /\ Arrive(p)
  /\ \E id \in ConfigIdInputs :
       /\ req' = [req EXCEPT ![p] = [ReqIdle EXCEPT !.op = "config", !.id = id]]
       /\ IF id = NoId THEN Respond(p, 400, {"invalid_id"}, NoBody)
          ELSE Goto(p, "g_read")
  /\ UNCHANGED <<configInterface, targetInterface, wireguardInterface, router, custody, nextId, oob, undone, lastToggle, peer_keys>>

\* const storedKeys = await database.getPeerKeys(id): the SELECT is answered
ConfigRead(p) ==
  /\ pc[p] = "g_read"
  /\ \E outcome \in CallOutcomes :
       LET id == req[p].id
       IN CASE outcome = "error" ->
                 /\ req' = req
                 /\ Respond(p, 500, {"db_get"}, NoBody)
            [] outcome = "ok" /\ id \notin DOMAIN custody ->
                 /\ req' = req
                 /\ Goto(p, "g_ids")
            [] OTHER ->
                 /\ req' = [req EXCEPT ![p].row = custody[id]]
                 /\ Goto(p, "g_server")
  /\ UNCHANGED <<configInterface, targetInterface, wireguardInterface, router, custody, nextId, nreq, oob, undone, lastToggle, peer_keys, pre>>

\* if (!storedKeys): const allKeys = await database.getAllPeersKeyStatus(),
\* then 404 with availableIds
ConfigIds(p) ==
  /\ pc[p] = "g_ids"
  /\ \E outcome \in CallOutcomes :
       IF outcome = "ok"
         THEN Respond(p, 404, {"config_not_found"},
                      [NoBody EXCEPT !.id = req[p].id,
                                     !.availableIds = StoredIds(custody)])
         ELSE Respond(p, 500, {"db_list"}, NoBody)
  /\ UNCHANGED <<configInterface, targetInterface, wireguardInterface, router, custody, nextId, nreq, oob, undone, lastToggle, peer_keys, req, pre>>

\* Mutant of ConfigServer: the handler without its try / catch; a rejected
\* getServerInfo ends the handler and nothing is sent.
ConfigServerUncaught(p) ==
  /\ pc[p] = "g_server"
  /\ \E outcome \in ServerInfoOutcomes :
       LET serverInfo == getServerInfo(outcome)
       IN CASE ~serverInfo.ok -> Goto(p, "unanswered")
            [] serverInfo.ok /\ serverInfo.publicKey = NoKey ->
                 Respond(p, 500, {"server_key"}, NoBody)
            [] OTHER ->
                 Respond(p, 200, {},
                   [NoBody EXCEPT !.id = req[p].id,
                      !.config = ConfigContent(req[p].row, serverInfo.publicKey),
                      !.fileName = FileName(req[p].row.name)])
  /\ UNCHANGED <<configInterface, targetInterface, wireguardInterface, router, custody, nextId, nreq, oob, undone, lastToggle, peer_keys, req, pre>>

\* const serverInfo = await mikrotik.getServerInfo(), the public-key check
\* and the document
ConfigServer(p) ==
  /\ pc[p] = "g_server"
  /\ \E outcome \in ServerInfoOutcomes :
       LET serverInfo == getServerInfo(outcome)
       IN CASE ~serverInfo.ok -> Respond(p, 500, {"server_info"}, NoBody)
            [] serverInfo.ok /\ serverInfo.publicKey = NoKey ->
                 Respond(p, 500, {"server_key"}, NoBody)
            [] OTHER ->
                 Respond(p, 200, {},
                   [NoBody EXCEPT !.id = req[p].id,
                      !.config = ConfigContent(req[p].row, serverInfo.publicKey),
                      !.fileName = FileName(req[p].row.name)])
  /\ UNCHANGED <<configInterface, targetInterface, wireguardInterface, router, custody, nextId, nreq, oob, undone, lastToggle, peer_keys, req, pre>>

\* GET /api/server-info arrives: mikrotik.getServerInfo() is sent and
\* awaited.
ServerInfoBegin(p) ==
  /\ Arrive(p)
  /\ req' = [req EXCEPT ![p] = [ReqIdle EXCEPT !.op = "serverinfo"]]
  /\ Goto(p, "s_info")
  /\ UNCHANGED <<configInterface, targetInterface, wireguardInterface, router, custody, nextId, oob, undone, lastToggle, peer_keys>>

\* const serverInfo = await mikrotik.getServerInfo(), then the response with
\* publicKey: serverInfo['public-key'] || null; the catch block answers 500
ServerInfo(p) ==
  /\ pc[p] = "s_info"
  /\ \E outcome \in ServerInfoOutcomes :
       LET serverInfo == getServerInfo(outcome)
       IN IF serverInfo.ok
            THEN Respond(p, 200, {}, [NoBody EXCEPT !.serverKey = serverInfo.publicKey])
            ELSE Respond(p, 500, {"server_info"}, NoBody)
  /\ UNCHANGED <<configInterface, targetInterface, wireguardInterface, router, custody, nextId, nreq, oob, undone, lastToggle, peer_keys, req, pre>>

(***************************************************************************)
(* The router's administrator.                                             *)
(***************************************************************************)
\* A peer is removed on the router itself, not through the server.
OutOfBandDelete ==
  /\ \E id \in DOMAIN router : router' = Without(router, id)
  /\ oob' = TRUE
  /\ UNCHANGED <<configInterface, targetInterface, wireguardInterface, custody, nextId, nreq, undone, lastToggle, peer_keys, pc, req, res, pre>>

\* The same while no request is being served.
QuietOutOfBandDelete ==
  /\ \A p \in Procs : pc[p] = "idle"
  /\ OutOfBandDelete

(***************************************************************************)
(* Initial states and specifications.                                      *)
(***************************************************************************)
\* A peer as Create leaves it, and its row.
InitPeer(n, name, host, withPsk) ==
  Peer(Interfaces[1], Key("pub", n), Addr(host, 32), name, FALSE,
       IF withPsk THEN Key("psk", n) ELSE NoKey)
InitRow(n, name, host, withPsk) ==
  Row(name, Key("priv", n), IF withPsk THEN Key("psk", n) ELSE NoKey, Addr(host, 32))

\* A peer the administrator made by hand: on the router's second interface,
\* without comment or preshared key, and without a row.
HandMadePeer(n, host) ==
  Peer(Interfaces[2], Key("pub", n), Addr(host, 32), << >>, FALSE, NoKey)

\* The server starts against an empty router and store, against a peer "a"
\* created earlier with a preshared key, or against a peer made by hand.
Worlds ==
  { [router |-> << >>, custody |-> << >>, nextId |-> 1],
    [router |-> <<InitPeer(0, <<"a">>, 2, TRUE)>>,
     custody |-> <<InitRow(0, <<"a">>, 2, TRUE)>>,
     nextId |-> 2],
    [router |-> <<HandMadePeer(0, 2)>>, custody |-> << >>, nextId |-> 2] }

InitWith(P) ==
  /\ \E w \in Worlds :
       /\ router = w.router
       /\ custody = w.custody
       /\ nextId = w.nextId
  /\ nreq = 0
  /\ oob = FALSE
  /\ undone = {}
  /\ lastToggle = NoToggle
  /\ peer_keys = NoTable
  /\ configInterface \in ConfigInterfaces
  /\ targetInterface \in TargetInterfaces
  /\ wireguardInterface = NoIface
  /\ pc = [p \in P |-> "idle"]
  /\ req = [p \in P |-> ReqIdle]
  /\ res = [p \in P |-> NoRes]
  /\ pre = [p \in P |-> NoPre]

\* Requests served one at a time; the administrator acts between requests.
Init == InitWith({1})
Next ==
  \/ \E p \in Procs : CreateBegin(p)
  \/ \E p \in Procs : CreateInterface(p)
  \/ \E p \in Procs : CreateAllocate(p)
  \/ \E p \in Procs : CreateAllocateInterface(p)
  \/ \E p \in Procs : CreateRouterAdd(p)
  \/ \E p \in Procs : CreateRouterLookup(p)
  \/ \E p \in Procs : CreateRouterLookupInterface(p)
  \/ \E p \in Procs : CreateSave(p)
  \/ \E p \in Procs : CreateUndo(p)
  \/ \E p \in Procs : UpdateBegin(p)
  \/ \E p \in Procs : RegenRouterDelete(p)
  \/ \E p \in Procs : RegenDbDelete(p)
  \/ \E p \in Procs : RegenInterface(p)
  \/ \E p \in Procs : RegenRouterAdd(p)
  \/ \E p \in Procs : RegenRouterLookup(p)
  \/ \E p \in Procs : RegenRouterLookupInterface(p)
  \/ \E p \in Procs : RegenSave(p)
  \/ \E p \in Procs : UpdateDbPsk(p)
  \/ \E p \in Procs : UpdateRouter(p)
  \/ \E p \in Procs : DeleteBegin(p)
  \/ \E p \in Procs : DeleteRouter(p)
  \/ \E p \in Procs : DeleteDb(p)
  \/ \E p \in Procs : ToggleBegin(p)
  \/ \E p \in Procs : ToggleRead(p)
  \/ \E p \in Procs : ToggleWrite(p)
  \/ \E p \in Procs : ToggleReread(p)
  \/ \E p \in Procs : CleanupBegin(p)
  \/ \E p \in Procs : CleanupList(p)
  \/ \E p \in Procs : CleanupListInterface(p)
  \/ \E p \in Procs : CleanupStored(p)
  \/ \E p \in Procs : CleanupDelete(p)
  \/ \E p \in Procs : ListBegin(p)
  \/ \E p \in Procs : ListRouter(p)
  \/ \E p \in Procs : ListRouterInterface(p)
  \/ \E p \in Procs : ListStored(p)
  \/ \E p \in Procs : ConfigBegin(p)
  \/ \E p \in Procs : ConfigRead(p)
  \/ \E p \in Procs : ConfigIds(p)
  \/ \E p \in Procs : ConfigServer(p)
  \/ \E p \in Procs : ServerInfoBegin(p)
  \/ \E p \in Procs : ServerInfo(p)
  \/ \E p \in Procs : Return(p)
  \/ QuietOutOfBandDelete
Spec == Init /\ [][Next]_vars

\* Two requests in flight against a server started on an empty router and
\* store, with a config.json that names no interface in either section
\* (wireguard, mikrotik.wireguard); the administrator
\* acts at any time.  Every peer is then made by a Create, whose first call
\* is the interface lookup (server.js line 366): MikrotikAPI has the name
\* cached before any createPeer or getNextAvailableIP runs, so the lookups
\* inside their getPeers and the await of the regeneration are never
\* pending here, and only List and Cleanup can meet an empty cache.
InitConc ==
  /\ InitWith({1, 2})
  /\ router = << >>
  /\ configInterface = NoIface
  /\ targetInterface = NoIface
NextConc ==
  \/ \E p \in Procs : CreateBegin(p)
  \/ \E p \in Procs : CreateInterface(p)
  \/ \E p \in Procs : CreateAllocate(p)
  \/ \E p \in Procs : CreateRouterAdd(p)
  \/ \E p \in Procs : CreateRouterLookup(p)
  \/ \E p \in Procs : CreateSave(p)
  \/ \E p \in Procs : CreateUndo(p)
  \/ \E p \in Procs : UpdateBegin(p)
  \/ \E p \in Procs : RegenRouterDelete(p)
  \/ \E p \in Procs : RegenDbDelete(p)
  \/ \E p \in Procs : RegenRouterAdd(p)
  \/ \E p \in Procs : RegenRouterLookup(p)
  \/ \E p \in Procs : RegenSave(p)
  \/ \E p \in Procs : UpdateDbPsk(p)
  \/ \E p \in Procs : UpdateRouter(p)
  \/ \E p \in Procs : DeleteBegin(p)
  \/ \E p \in Procs : DeleteRouter(p)
  \/ \E p \in Procs : DeleteDb(p)
  \/ \E p \in Procs : ToggleBegin(p)
  \/ \E p \in Procs : ToggleRead(p)
  \/ \E p \in Procs : ToggleWrite(p)
  \/ \E p \in Procs : ToggleReread(p)
  \/ \E p \in Procs : CleanupBegin(p)
  \/ \E p \in Procs : CleanupList(p)
  \/ \E p \in Procs : CleanupListInterface(p)
  \/ \E p \in Procs : CleanupStored(p)
  \/ \E p \in Procs : CleanupDelete(p)
  \/ \E p \in Procs : ListBegin(p)
  \/ \E p \in Procs : ListRouter(p)
  \/ \E p \in Procs : ListRouterInterface(p)
  \/ \E p \in Procs : ListStored(p)
  \/ \E p \in Procs : ConfigBegin(p)
  \/ \E p \in Procs : ConfigRead(p)
  \/ \E p \in Procs : ConfigIds(p)
  \/ \E p \in Procs : ConfigServer(p)
  \/ \E p \in Procs : ServerInfoBegin(p)
  \/ \E p \in Procs : ServerInfo(p)
  \/ \E p \in Procs : Return(p)
  \/ OutOfBandDelete
SpecConc == InitConc /\ [][NextConc]_vars

\* The allocator over routers whose peers were made elsewhere: the peers
\* hold the addresses FirstHost .. k but for a gap, for k at the start of
\* the scan, around the tenth host, and at the end of the scan and one past
\* it.  The peers are all on one of the router's interfaces, which the
\* interface MikrotikAPI looks up may or may not be.  A peer carries the
\* number of its host as identifier; none has a row.
UsedInputs ==
  { (FirstHost .. k) \ g :
      k \in ((FirstHost - 1) .. (FirstHost + 1)) \cup ((FirstHost + 7) .. (FirstHost + 10))
              \cup ((LastHostExcl - 3) .. LastHostExcl),
      g \in {{}, {FirstHost}, {FirstHost + 9}, {LastHostExcl - 1}} }
InitAlloc ==
  /\ \E used \in UsedInputs, on \in DOMAIN Interfaces :
       router = [h \in used |->
                   Peer(Interfaces[on], Key("pub", 0 - h), Addr(h, 32), <<"a">>, FALSE,
                        NoKey)]
  /\ custody = << >>
  /\ nextId = LastHostExcl + 1
  /\ nreq = 0
  /\ oob = FALSE
  /\ undone = {}
  /\ lastToggle = NoToggle
  /\ peer_keys = NoTable
  /\ configInterface \in ConfigInterfaces
  /\ targetInterface \in TargetInterfaces
  /\ wireguardInterface = NoIface
  /\ pc = [p \in {1} |-> "idle"]
  /\ req = [p \in {1} |-> ReqIdle]
  /\ res = [p \in {1} |-> NoRes]
  /\ pre = [p \in {1} |-> NoPre]
\* Creates up to the allocation, one at a time.
NextAlloc ==
  \/ \E p \in Procs : CreateBegin(p)
  \/ \E p \in Procs : CreateInterface(p)
  \/ \E p \in Procs : CreateAllocate(p)
  \/ \E p \in Procs : CreateAllocateInterface(p)
  \/ \E p \in Procs : Return(p)
SpecAlloc == InitAlloc /\ [][NextAlloc]_vars

\* The steps of the handlers, and the server under the scheduling of the
\* event loop: every awaited router or store call settles (the router
\* connection has a timeout, the store calls back once), and the
\* continuation of a settled call runs.
HandlerStep(p) ==
  \/ CreateBegin(p) \/ CreateInterface(p) \/ CreateAllocate(p) \/ CreateAllocateInterface(p)
  \/ CreateRouterAdd(p) \/ CreateRouterLookup(p) \/ CreateRouterLookupInterface(p)
  \/ CreateSave(p) \/ CreateUndo(p)
  \/ UpdateBegin(p) \/ RegenRouterDelete(p) \/ RegenDbDelete(p) \/ RegenInterface(p)
  \/ RegenRouterAdd(p) \/ RegenRouterLookup(p) \/ RegenRouterLookupInterface(p)
  \/ RegenSave(p)
  \/ UpdateDbPsk(p) \/ UpdateRouter(p)
  \/ DeleteBegin(p) \/ DeleteRouter(p) \/ DeleteDb(p)
  \/ ToggleBegin(p) \/ ToggleRead(p) \/ ToggleWrite(p) \/ ToggleReread(p)
  \/ CleanupBegin(p) \/ CleanupList(p) \/ CleanupListInterface(p)
  \/ CleanupStored(p) \/ CleanupDelete(p)
  \/ ListBegin(p) \/ ListRouter(p) \/ ListRouterInterface(p) \/ ListStored(p)
  \/ ConfigBegin(p) \/ ConfigRead(p) \/ ConfigIds(p) \/ ConfigServer(p)
  \/ ServerInfoBegin(p) \/ ServerInfo(p)
Running(p) == pc[p] \notin {"idle", "done"}
\* One request, of any operation, against each world the server can stand
\* in: the two it starts in, each after the administrator removed a peer,
\* and one with two rows whose peers are gone.
LiveWorlds ==
  Worlds \cup
  { [router |-> << >>,
     custody |-> <<InitRow(0, <<"a">>, 2, TRUE), InitRow(1, <<"b">>, 3, FALSE)>>,
     nextId |-> 3] }
InitLive ==
  /\ \E w \in LiveWorlds :
       /\ router = w.router
       /\ custody = w.custody
       /\ nextId = w.nextId
  /\ nreq = 0
  /\ oob = FALSE
  /\ undone = {}
  /\ lastToggle = NoToggle
  /\ peer_keys = NoTable
  /\ configInterface \in ConfigInterfaces
  /\ targetInterface \in TargetInterfaces
  /\ wireguardInterface = NoIface
  /\ pc = [p \in {1} |-> "idle"]
  /\ req = [p \in {1} |-> ReqIdle]
  /\ res = [p \in {1} |-> NoRes]
  /\ pre = [p \in {1} |-> NoPre]
NextLive ==
  \/ \E p \in Procs : HandlerStep(p)
  \/ QuietOutOfBandDelete
SpecLive == InitLive /\ [][NextLive]_vars /\ WF_vars(Running(1) /\ HandlerStep(1))

\* Key generation on its own: Creates up to their first router call, with
\* what generateKeys was given and returned kept in the request.
NextKeys ==
  \/ \E p \in Procs : CreateBeginFrom(p, TRUE)
  \/ \E p \in Procs : CreateInterfaceFrom(p, TRUE)
  \/ \E p \in Procs : Return(p)
SpecKeys == Init /\ [][NextKeys]_vars

\* Key validation on its own.  The values handed to isValidWireGuardKey:
\* strings of the lengths around KeyLen made of one base64 character, with
\* one character replaced at the start, at the end of the body or at the
\* padding position, ending in '=' or not; and values that are not strings.
ProbeChars(len, body, pos, other, last) ==
  [i \in 1..len |-> IF i = len THEN last ELSE IF i = pos THEN other ELSE body]
KeyProbes ==
  { JsString(ProbeChars(len, body, pos, other, last)) :
      len \in {0, 1, KeyLen - 1, KeyLen, KeyLen + 1},
      body \in {"A", "z", "0", "9", "+", "/"},
      pos \in {0, 1, RegexBody, KeyLen},
      other \in {"=", "-", "_", " ", "b"},
      last \in {"=", "A", "-"} }
  \cup { JsNull, JsUndefined, JsNumber(0), JsNumber(KeyLen),
         JsArray(ProbeChars(KeyLen, "A", 0, "A", "=")) }
\* One call of isValidWireGuardKey on the value the request holds.
ValidateKey(p) ==
  /\ pc[p] = "idle"
  /\ ~req[p].checked
  /\ req' = [req EXCEPT ![p].checked = TRUE,
                        ![p].valid = isValidWireGuardKey(req[p].probe)]
  /\ UNCHANGED <<configInterface, targetInterface, wireguardInterface, router, custody, nextId, nreq, oob, undone, lastToggle, peer_keys, pc, res, pre>>
InitValid ==
  /\ router = << >>
  /\ custody = << >>
  /\ nextId = 1
  /\ nreq = 0
  /\ oob = FALSE
  /\ undone = {}
  /\ lastToggle = NoToggle
  /\ peer_keys = NoTable
  /\ configInterface = NoIface
  /\ targetInterface = NoIface
  /\ wireguardInterface = NoIface
  /\ pc = [p \in {1} |-> "idle"]
  /\ \E v \in KeyProbes : req = [p \in {1} |-> [ReqIdle EXCEPT !.probe = v]]
  /\ res = [p \in {1} |-> NoRes]
  /\ pre = [p \in {1} |-> NoPre]
NextValid == \E p \in Procs : ValidateKey(p)
SpecValid == InitValid /\ [][NextValid]_vars

\* The store on its own: savePeerKeys, deletePeerKeys and updatePresharedKey
\* called with any identifier, one statement at a time (sqlite runs the
\* statements of a connection one after the other).  Each call is followed
\* in the table row by row and in `custody`.
StoreIds == {1, 2}
StoreRows ==
  { Row(<<"a">>, Key("priv", 1), NoKey, Addr(2, 32)),
    Row(<<"b">>, Key("priv", 2), Key("psk", 2), Addr(3, 32)),
    Row(<<"b">>, NoKey, NoKey, Addr(3, 32)) }
StoreCall(p, op, id, row, fault) ==
  /\ pc[p] = "idle"
  /\ nreq < MaxReqs
  /\ nreq' = nreq + 1
  /\ req' = [req EXCEPT ![p] = [ReqIdle EXCEPT !.op = op, !.id = id, !.row = row,
                                               !.fault = fault]]
  /\ UNCHANGED <<configInterface, targetInterface, wireguardInterface, router, nextId, oob, undone, lastToggle, pc, res, pre>>
StoreSave(p) ==
  \E id \in StoreIds, row \in StoreRows, outcome \in CallOutcomes :
    IF outcome = "ok" /\ RowAccepted(row)
      THEN /\ custody' = savePeerKeys(custody, id, row)
           /\ peer_keys' = InsertOrReplace(peer_keys, id, row)
           /\ StoreCall(p, "savePeerKeys", id, row, "none")
      ELSE /\ UNCHANGED <<custody, peer_keys>>
           /\ StoreCall(p, "savePeerKeys", id, row, "rejected")
StoreDelete(p) ==
  \E id \in StoreIds, outcome \in CallOutcomes :
    IF outcome = "ok"
      THEN /\ custody' = deletePeerKeys(custody, id)
           /\ peer_keys' = DeleteWhere(peer_keys, id)
           /\ StoreCall(p, "deletePeerKeys", id, NoRow, "none")
      ELSE /\ UNCHANGED <<custody, peer_keys>>
           /\ StoreCall(p, "deletePeerKeys", id, NoRow, "rejected")
StoreUpdatePsk(p) ==
  \E id \in StoreIds, n \in {8, 9}, outcome \in CallOutcomes :
    LET psk == Key("psk", n)
        row == Row(<< >>, NoKey, psk, NoAddr)
    IN IF outcome = "ok"
         THEN /\ custody' = updatePresharedKey(custody, id, psk)
              /\ peer_keys' = UpdateWhere(peer_keys, id, psk)
              /\ StoreCall(p, "updatePresharedKey", id, row, "none")
         ELSE /\ UNCHANGED <<custody, peer_keys>>
              /\ StoreCall(p, "updatePresharedKey", id, row, "rejected")
NextStore ==
  \/ \E p \in Procs : StoreSave(p)
  \/ \E p \in Procs : StoreDelete(p)
  \/ \E p \in Procs : StoreUpdatePsk(p)
InitStore ==
  /\ \E w \in Worlds :
       /\ router = w.router
       /\ custody = w.custody
       /\ nextId = w.nextId
  /\ peer_keys = TableOf(custody)
  /\ configInterface = NoIface
  /\ targetInterface = NoIface
  /\ wireguardInterface = NoIface
  /\ nreq = 0
  /\ oob = FALSE
  /\ undone = {}
  /\ lastToggle = NoToggle
  /\ pc = [p \in {1} |-> "idle"]
  /\ req = [p \in {1} |-> ReqIdle]
  /\ res = [p \in {1} |-> NoRes]
  /\ pre = [p \in {1} |-> NoPre]
SpecStore == InitStore /\ [][NextStore]_vars

\* Two clients that toggle and delete peers, their requests overlapping; the
\* administrator acts at any time.
NextToggles ==
  \/ \E p \in Procs : ToggleBegin(p)
  \/ \E p \in Procs : ToggleRead(p)
  \/ \E p \in Procs : ToggleWrite(p)
  \/ \E p \in Procs : ToggleReread(p)
  \/ \E p \in Procs : DeleteBegin(p)
  \/ \E p \in Procs : DeleteRouter(p)
  \/ \E p \in Procs : DeleteDb(p)
  \/ \E p \in Procs : Return(p)
  \/ OutOfBandDelete
SpecToggles == InitWith({1, 2}) /\ [][NextToggles]_vars

(***************************************************************************)
(* Properties.                                                             *)
(***************************************************************************)
\* Request p has been answered and was an `op`.
Done(p, op) == pc[p] = "done" /\ req[p].op = op
\* The rows without a live peer.
Orphans(table, peers) == {i \in DOMAIN table : i \notin DOMAIN peers}

\* C1, as stated: when the save of Create fails after the router created
\* the peer, the router and the store are, at the error response, what they
\* were when the request arrived.
C1_FailedSaveRestores ==
  \A p \in Procs :
    (Done(p, "create") /\ "save" \in res[p].err) =>
      (router = pre[p].router /\ custody = pre[p].custody)

\* What the catch (dbError) block does achieve: when the compensating
\* router delete went through, the request ends with an error, the created
\* peer is gone, no row was written, and the router and the store are what
\* they were when the request arrived.
C1_UndoneCreateRestores ==
  \A p \in Procs :
    (Done(p, "create") /\ "save" \in res[p].err /\ req[p].routerDelete = "ok") =>
      /\ res[p].code = 500
      /\ req[p].newId \notin DOMAIN router
      /\ req[p].newId \notin DOMAIN custody
      /\ router = pre[p].router
      /\ custody = pre[p].custody

\* A Create succeeds for a name whose earlier Create was undone.
C1_Witness ==
  \E p \in Procs :
    /\ Done(p, "create") /\ res[p].code = 200
    /\ Trim(req[p].name) \in undone
    /\ res[p].body.id \in DOMAIN router /\ res[p].body.id \in DOMAIN custody

\* C2: every row a cleanupOrphanedPeers run deletes (here: a run in which no
\* call failed) belongs to a peer that is not on the router when the row is
\* deleted.
C2_CleanupDeletesOnlyGone ==
  [][\A p \in Procs :
       (pc[p] = "k_delete" /\ req[p].fault = "none" /\ req'[p].orphans # req[p].orphans) =>
         \A i \in DOMAIN custody \ DOMAIN custody' : i \notin DOMAIN router]_vars

\* C3: Delete answers 200 or 500; on 200 the row of id is gone, whether or
\* not the router delete failed; it answers 500 only for a failed database
\* delete, which leaves the store as it was; peers and rows of other
\* identifiers are as they were when the request arrived.
C3_DeleteAlwaysCleansStore ==
  \A p \in Procs :
    Done(p, "delete") =>
      /\ res[p].code \in {200, 500}
      /\ res[p].code = 200 => req[p].id \notin DOMAIN custody
      /\ res[p].code = 500 => (res[p].err = {"db_delete"} /\ custody = pre[p].custody)
      /\ req[p].routerDelete = "failed" => router = pre[p].router
      /\ Without(router, req[p].id) = Without(pre[p].router, req[p].id)
      /\ Without(custody, req[p].id) = Without(pre[p].custody, req[p].id)

\* A Delete whose router delete failed for a live peer with a row: the row
\* is gone, the peer is still there, the answer is 200.
C3_Witness ==
  \E p \in Procs :
    /\ Done(p, "delete") /\ res[p].code = 200
    /\ req[p].routerDelete = "failed"
    /\ req[p].id \in DOMAIN router
    /\ req[p].id \in DOMAIN pre[p].custody
    /\ req[p].id \notin DOMAIN custody

\* C4, as stated: a cleanupOrphanedPeers run in which no call failed, alone,
\* removes exactly the rows whose identifier was not on the router, leaves
\* the other rows and the router as they were, and returns the number of
\* rows removed.
C4_CleanupRemovesExactlyOrphans ==
  \A p \in Procs :
    (Done(p, "cleanup") /\ req[p].fault = "none") =>
      LET gone == Orphans(pre[p].custody, pre[p].router)
      IN /\ custody = [i \in DOMAIN pre[p].custody \ gone |-> pre[p].custody[i]]
         /\ router = pre[p].router
         /\ res[p].code = 200
         /\ res[p].body.count = Cardinality(gone)

\* C4, what such a run does: it removes exactly the rows whose identifier
\* is not among the peers getPeers returned, those on the interface
\* MikrotikAPI looked up.
C4_CleanupRemovesRowsNotListed ==
  \A p \in Procs :
    (Done(p, "cleanup") /\ req[p].fault = "none") =>
      /\ DOMAIN custody = DOMAIN pre[p].custody \cap req[p].active
      /\ \A i \in DOMAIN custody : custody[i] = pre[p].custody[i]
      /\ router = pre[p].router
      /\ res[p].body.count = Cardinality(DOMAIN pre[p].custody \ req[p].active)

\* Rows for 1 and 2, peers {1}: only the row of 2 is removed, 1 is returned.
C4_RowOfGonePeerRemoved ==
  \E p \in Procs :
    /\ Done(p, "cleanup") /\ req[p].fault = "none"
    /\ DOMAIN pre[p].custody = {1, 2} /\ DOMAIN pre[p].router = {1}
    /\ DOMAIN custody = {1} /\ res[p].body.count = 1

\* The row of a live peer is removed: the peer is on the interface
\* config.json names, which is not the one MikrotikAPI looked up.
C4_RowOfLivePeerRemoved ==
  \E p \in Procs :
    /\ Done(p, "cleanup") /\ req[p].fault = "none"
    /\ \E i \in DOMAIN pre[p].custody \ DOMAIN custody :
         /\ i \in DOMAIN router
         /\ router[i].interface = configInterface
         /\ router[i].interface # wireguardInterface
    /\ res[p].body.count = 1

\* C5: after a cleanupOrphanedPeers run in which no call failed, alone, no
\* row is left whose identifier is not on the router.
C5_CleanupRestoresInvariant ==
  \A p \in Procs :
    (Done(p, "cleanup") /\ req[p].fault = "none") => Orphans(custody, router) = {}

\* Such a run after a peer with a row was removed out of band.
C5_Witness ==
  \E p \in Procs :
    /\ Done(p, "cleanup") /\ req[p].fault = "none"
    /\ oob
    /\ Orphans(pre[p].custody, pre[p].router) # {}
    /\ Orphans(custody, router) = {}

\* C6: as long as no peer was removed out of band, no state between
\* requests holds a row whose identifier is not on the router.
C6_NoOrphanWithoutOutOfBand ==
  (~oob /\ \A p \in Procs : pc[p] = "idle") => Orphans(custody, router) = {}

\* C7: during a regular update with updatePresharedKey, the row holds the
\* new preshared key only when the router peer holds it already.
C7_RouterBeforeStore ==
  \A p \in Procs :
    (req[p].op = "update" /\ req[p].updPsk /\ req[p].id \in DOMAIN custody
       /\ custody[req[p].id].psk = req[p].keys.psk) =>
      (req[p].id \in DOMAIN router /\ router[req[p].id].psk = req[p].keys.psk)

\* C8: when the save of Create fails and the compensating delete fails too,
\* the error sent reports both failures, and the created peer stays on the
\* router without a row.
C8_BothFailuresReported ==
  \A p \in Procs :
    (Done(p, "create") /\ "save" \in res[p].err /\ req[p].routerDelete = "failed") =>
      /\ {"save", "cleanup"} \subseteq res[p].err
      /\ req[p].newId \in DOMAIN router
      /\ req[p].newId \notin DOMAIN custody

\* C9: a complete regeneration answered 200 returns an identifier other
\* than the original, under which there is a peer and a row, both with a
\* preshared key; no peer and no row is left under the original.  The
\* identifier returned is the one the router gave the peer it added
\* (req[p].newId); that it is a new one is the router's doing, which gives
\* an added peer an identifier it has not given out before (nextId).
C9_RegenerationMovesPeer ==
  \A p \in Procs :
    (Done(p, "regenerate") /\ res[p].code = 200) =>
      LET old == req[p].id
          new == res[p].body.id
      IN /\ new # old /\ new # NoId
         /\ old \notin DOMAIN router /\ old \notin DOMAIN custody
         /\ new = req[p].newId
         /\ new \in DOMAIN router /\ new \in DOMAIN custody
         /\ router[new].psk # NoKey /\ custody[new].psk # NoKey

\* A regeneration answered 200 for a peer that had a row.
C9_Witness ==
  \E p \in Procs :
    /\ Done(p, "regenerate") /\ res[p].code = 200
    /\ req[p].id \in DOMAIN pre[p].router /\ req[p].id \in DOMAIN pre[p].custody
    /\ res[p].body.id \in DOMAIN router

\* C10: a Create answered 200 has added one peer, enabled, with the
\* generated public key, the resolved address (the one given, else the /32
\* address the allocator returned) and the trimmed name as comment, and one
\* row under the identifier returned, holding the private key generated
\* with that public key; every other peer and row is as it was when the
\* request arrived.
C10_CreateAddsOnePeerOneRow ==
  \A p \in Procs :
    (Done(p, "create") /\ res[p].code = 200) =>
      LET id == res[p].body.id
          resolved == req[p].addr
      IN /\ IF req[p].allowedIPs \notin {NoAddr, EmptyAddr}
              THEN resolved = req[p].allowedIPs
            ELSE resolved.mask = 32 /\ resolved.host \in FirstHost .. (LastHostExcl - 1)
         /\ id \notin DOMAIN pre[p].router /\ id \notin DOMAIN pre[p].custody
         /\ DOMAIN router = DOMAIN pre[p].router \cup {id}
         /\ DOMAIN custody = DOMAIN pre[p].custody \cup {id}
         /\ Without(router, id) = pre[p].router
         /\ Without(custody, id) = pre[p].custody
         /\ ~router[id].disabled
         /\ router[id].pub = Key("pub", router[id].pub.n)
         /\ router[id].pub = res[p].body.pub
         /\ router[id].addr = resolved
         /\ res[p].body.addr = resolved
         /\ res[p].body.name = Trim(req[p].name)
         /\ router[id].comment = Trim(req[p].name)
         /\ custody[id].priv = Key("priv", router[id].pub.n)
         /\ custody[id].addr = resolved

\* A Create answered 200 beside an older peer, under a name that needed
\* trimming, with the address taken from the allocator.
C10_Witness ==
  \E p \in Procs :
    /\ Done(p, "create") /\ res[p].code = 200
    /\ DOMAIN pre[p].router # {}
    /\ req[p].allowedIPs = NoAddr
    /\ Trim(req[p].name) # req[p].name

\* C11: when the router added the peer of a Create but the answer held no
\* identifier and the peers listed afterwards hold no match, the request
\* ends with the error of the identifier search, no row is written, and the
\* added peer is on the router: the router is what it was when the request
\* arrived plus that one peer.
C11_UnresolvedIdLeavesPeer ==
  \A p \in Procs :
    (Done(p, "create") /\ "no_id" \in res[p].err) =>
      /\ res[p].code = 500
      /\ custody = pre[p].custody
      /\ \E id \in DOMAIN router \ DOMAIN pre[p].router :
           /\ Without(router, id) = pre[p].router
           /\ id \notin DOMAIN custody
           /\ router[id].pub = req[p].keys.pub
           /\ router[id].comment = Trim(req[p].name)

\* Such a Create beside an older peer that has its row.
C11_Witness ==
  \E p \in Procs :
    /\ Done(p, "create") /\ "no_id" \in res[p].err
    /\ DOMAIN pre[p].router # {} /\ DOMAIN pre[p].custody # {}
    /\ Cardinality(DOMAIN router) = Cardinality(DOMAIN pre[p].router) + 1

\* C12: the rows a cleanupOrphanedPeers run has deleted, whatever calls
\* failed in it, are rows whose identifier is not on the router; a run
\* whose peer listing failed (the listing call threw, or ended by the
\* `not found` error that getPeers turns into an empty list) has deleted
\* none.
C12_CleanupSparesLivePeers ==
  \A p \in Procs :
    req[p].op = "cleanup" =>
      /\ \A i \in DOMAIN pre[p].custody \ DOMAIN custody : i \notin DOMAIN router
      /\ req[p].fault = "notfound" => custody = pre[p].custody

\* C13: a request in which a router or database call failed is answered
\* with an error status, except a Delete whose router delete failed.  The
\* failed calls are those the request records: a failed call of
\* cleanupOrphanedPeers (fault) and a failed, caught mikrotik.deletePeer
\* (routerDelete).
C13_FailuresSurfaced ==
  \A p \in Procs :
    (/\ pc[p] = "done"
     /\ \/ req[p].fault # "none"
        \/ (req[p].routerDelete = "failed" /\ req[p].op # "delete")) =>
      res[p].code >= 400

\* C14: a Create or Update whose name is missing, empty or white space is
\* answered 400 `name required` at once: no key was generated, no router
\* or database call was made, and the router and the store are what they
\* were when the request arrived.
C14_BlankNameRejectedFirst ==
  \A p \in Procs :
    (req[p].op \in {"create", "update", "regenerate"} /\ Trim(req[p].name) = << >>) =>
      /\ pc[p] = "done"
      /\ res[p].code = 400 /\ res[p].err = {"name_required"}
      /\ req[p].keys = NoKeys
      /\ router = pre[p].router /\ custody = pre[p].custody

\* A Create with a name of white space, or an Update with an empty name,
\* while the router holds a peer.
C14_Witness ==
  \E p \in Procs :
    /\ pc[p] = "done" /\ res[p].code = 400
    /\ DOMAIN router # {}
    /\ \/ req[p].op = "create" /\ req[p].name = Blank
       \/ req[p].op = "update" /\ req[p].name = << >>

\* C15: a key on a router peer (public, preshared) or in a row (preshared)
\* is never one the validation rejects, that is, it has 44 characters, the
\* first 43 of the base64 alphabet and the last '='; and a Create, a
\* complete regeneration or a preshared-key update whose generated key was
\* rejected is answered 500 with the router and the store as they were when
\* the request arrived.
C15_RejectedKeyNeverUsed ==
  LET WellFormed(k) == k.len = KeyLen /\ k.alpha /\ k.pad
      Usable(k) == k = NoKey \/ WellFormed(k)
  IN /\ \A i \in DOMAIN router : WellFormed(router[i].pub) /\ Usable(router[i].psk)
     /\ \A i \in DOMAIN custody : Usable(custody[i].psk)
     /\ \A p \in Procs :
          (res[p].err \cap {"invalid_public_key", "invalid_preshared_key", "invalid_keys"}) # {} =>
            /\ pc[p] = "done" /\ res[p].code = 500
            /\ req[p].op \in {"create", "update", "regenerate"}
            /\ router = pre[p].router /\ custody = pre[p].custody

\* A preshared-key update of a peer with a row, aborted because the
\* generated preshared key was malformed.
C15_Witness ==
  \E p \in Procs :
    /\ Done(p, "update") /\ res[p].err = {"invalid_preshared_key"}
    /\ req[p].id \in DOMAIN router /\ req[p].id \in DOMAIN custody

\* C16, requests served one at a time: the address a Create answered 200
\* took from the allocator is the address of no peer that was on the router
\* when the request arrived.
C16_AllocatedAddressUnused ==
  \A p \in Procs :
    (Done(p, "create") /\ res[p].code = 200
       /\ req[p].allowedIPs \in {NoAddr, EmptyAddr}) =>
      \A i \in DOMAIN pre[p].router : pre[p].router[i].addr.host # res[p].body.addr.host

\* C16, requests overlapping: two Creates without an address have both
\* been given the same address by the allocator and both their peers are on
\* the router with it.
C16_SameAddressTwice ==
  \E p, q \in Procs :
    /\ p # q
    /\ req[p].op = "create" /\ req[q].op = "create"
    /\ req[p].allowedIPs = NoAddr /\ req[q].allowedIPs = NoAddr
    /\ req[p].newId \in DOMAIN router /\ req[q].newId \in DOMAIN router
    /\ req[p].newId # req[q].newId
    /\ router[req[p].newId].addr = router[req[q].newId].addr
    /\ pre[q].router = pre[p].router

\* C17: the write of a Toggle stores the negation of the flag the handler
\* read, whatever the flag of the peer is by then: the handler compares
\* nothing, and the last write wins.
C17_ToggleWritesWhatItRead ==
  [][\A p \in Procs :
       (pc[p] = "t_write" /\ pc'[p] = "t_reread") =>
         router'[req[p].id].disabled = ~req[p].curDisabled]_vars

\* Two Toggles of the same peer both read the flag the peer had and both
\* were answered 200; the peer is flipped once.
C17_Witness ==
  \E p, q \in Procs :
    /\ p # q
    /\ Done(p, "toggle") /\ Done(q, "toggle")
    /\ res[p].code = 200 /\ res[q].code = 200
    /\ req[p].id = req[q].id
    /\ req[p].id \in DOMAIN router /\ req[p].id \in DOMAIN pre[p].router
    /\ req[p].curDisabled = pre[p].router[req[p].id].disabled
    /\ req[q].curDisabled = req[p].curDisabled
    /\ router[req[p].id].disabled = ~req[p].curDisabled

\* C18: a Toggle answered 200, alone, has inverted the disabled flag of its
\* peer and changed nothing else on the router or in the store, and it
\* reports the flag the peer has now; when the request answered just before
\* was a Toggle of the same peer, the peer has the flag it had before the
\* two.
C18_ToggleInvertsFlagOnly ==
  \A p \in Procs :
    (Done(p, "toggle") /\ res[p].code = 200) =>
      LET id == req[p].id
      IN /\ id \in DOMAIN pre[p].router
         /\ router = [pre[p].router EXCEPT ![id].disabled = ~@]
         /\ custody = pre[p].custody
         /\ res[p].body.enabled = pre[p].router[id].disabled
         /\ lastToggle.id = id => router[id].disabled = lastToggle.disabled

\* The second of two successive Toggles of a peer, answered 200.
C18_Witness ==
  \E p \in Procs :
    /\ Done(p, "toggle") /\ res[p].code = 200
    /\ lastToggle.id = req[p].id
    /\ req[p].id \in DOMAIN custody
    /\ router[req[p].id].disabled = lastToggle.disabled

\* C19: a listing without cleanup, a config export and a server-info
\* request leave the router and the store as they were when the request
\* arrived; and no request other than a cleanup, or a listing with
\* cleanup, removes a row of an identifier that is not the one it was
\* called with.
C19_ReadsChangeNothing ==
  \A p \in Procs :
    /\ (req[p].op \in {"config", "serverinfo"} \/ (req[p].op = "list" /\ ~req[p].cleanup)) =>
         (router = pre[p].router /\ custody = pre[p].custody)
    /\ (pc[p] # "idle" /\ ~req[p].cleanup) =>
         (DOMAIN pre[p].custody \ DOMAIN custody) \subseteq {req[p].id}

\* A listing without cleanup answered 200 while the store holds a row
\* whose peer was removed out of band: the row is still there.
C19_Witness ==
  \E p \in Procs :
    /\ Done(p, "list") /\ ~req[p].cleanup /\ res[p].code = 200
    /\ oob /\ Orphans(custody, router) # {}

\* C20: a config export is answered 404, with the identifiers the store
\* holds, only when the store has no row for the identifier; it is answered
\* with the `server public key not configured` error only when the row is
\* there and the router reports no public key; it is answered 200, with the
\* document made of that row and the server's public key, only when the row
\* is there; and a response without the document is never a 200.
C20_ConfigNeedsRowAndServerKey ==
  \A p \in Procs :
    Done(p, "config") =>
      LET id == req[p].id
          stored == id \in DOMAIN pre[p].custody
      IN /\ res[p].code = 404 =>
              /\ ~stored /\ res[p].body.config = << >>
              /\ res[p].body.availableIds = DOMAIN pre[p].custody
         /\ "server_key" \in res[p].err =>
              (stored /\ res[p].code = 500 /\ res[p].body.config = << >>)
         /\ res[p].code = 200 =>
              /\ stored
              /\ res[p].body.config = ConfigContent(pre[p].custody[id], ServerKey)
         /\ ~stored => res[p].code \in {400, 404, 500}
         /\ ~stored /\ res[p].code = 500 => res[p].err \subseteq {"db_get", "db_list"}

\* An export answered 404 that lists the row of another peer.
C20_Witness ==
  \E p \in Procs :
    /\ Done(p, "config") /\ res[p].code = 404
    /\ req[p].id # NoId
    /\ res[p].body.availableIds # {}

\* C21: the document of a config export answered 200 holds, in this order,
\* the row's private key, the row's address, the DNS resolver, the server's
\* public key as the router reported it, the configured endpoint, the
\* configured allowed IPs, a PresharedKey line with the row's preshared key
\* exactly when the row holds one, and last PersistentKeepalive = 25.
C21_ConfigDocumentOrder ==
  \A p \in Procs :
    (Done(p, "config") /\ res[p].code = 200) =>
      LET doc == res[p].body.config
          row == pre[p].custody[req[p].id]
          head == <<"PrivateKey", "Address", "DNS", "PublicKey", "Endpoint", "AllowedIPs">>
          names == [i \in 1 .. Len(doc) |-> doc[i].name]
      IN /\ names = head \o (IF row.psk # NoKey THEN <<"PresharedKey">> ELSE << >>)
                          \o <<"PersistentKeepalive">>
         /\ doc[1].k = row.priv /\ row.priv # NoKey
         /\ doc[2].a = row.addr
         /\ doc[3].t = "172.16.0.1"
         /\ doc[4].k = Key("server", 0)
         /\ doc[5].t = "config.wireguard.serverEndpoint"
         /\ doc[6].t = "config.wireguard.allowedIPs"
         /\ row.psk # NoKey => doc[7].k = row.psk
         /\ doc[Len(doc)].t = "25"

\* An export answered 200 for a peer created without a preshared key: the
\* document has seven lines.
C21_Witness ==
  \E p \in Procs :
    /\ Done(p, "config") /\ res[p].code = 200
    /\ pre[p].custody[req[p].id].psk = NoKey
    /\ Len(res[p].body.config) = 7

\* C22: the address getNextAvailableIP returns is host N with mask 32 for
\* the smallest N of 2 .. 254 that is the host of no peer listed (so it
\* depends on the set of those hosts only), and it throws `no available IP`
\* exactly when every N of 2 .. 254 is the host of a peer listed.
C22_FirstFreeAddress ==
  \A p \in Procs :
    (req[p].op = "create" /\ req[p].allowedIPs \in {NoAddr, EmptyAddr}) =>
      LET used == {req[p].listed[i].addr.host : i \in DOMAIN req[p].listed}
          free == {n \in 2 .. 254 : n \notin used}
      IN /\ pc[p] = "c_create" =>
              /\ req[p].addr.mask = 32
              /\ req[p].addr.host \in free
              /\ \A n \in free : req[p].addr.host <= n
         /\ "no_ip" \in res[p].err => (free = {} /\ res[p].code = 500)
         /\ (pc[p] = "done" /\ "next_ip" \in res[p].err /\ free = {}
               /\ "get_peers" \notin res[p].err) => "no_ip" \in res[p].err

\* The peers listed hold 2 .. 10 and the address returned is host 11.
C22_Witness ==
  \E p \in Procs :
    /\ pc[p] = "c_create" /\ req[p].allowedIPs = NoAddr
    /\ {req[p].listed[i].addr.host : i \in DOMAIN req[p].listed} = 2 .. 10
    /\ req[p].addr = Addr(11, 32)

\* Every host of 2 .. 254 is taken and the allocation failed.
C22_Exhausted ==
  \E p \in Procs :
    /\ pc[p] = "done" /\ "no_ip" \in res[p].err
    /\ 2 .. 254 \subseteq {req[p].listed[i].addr.host : i \in DOMAIN req[p].listed}

\* C23: no key field of a router peer holds a private key, and no response
\* but the document of a config export holds one: not the public key or
\* new preshared key returned, not a listed peer, not the server key; the
\* document, sent by the config export only, starts with the private key
\* of the row.
C23_PrivateKeyStaysInStore ==
  /\ \A i \in DOMAIN router : router[i].pub.kind # "priv" /\ router[i].psk.kind # "priv"
  /\ \A p \in Procs :
       /\ res[p].body.pub.kind # "priv"
       /\ res[p].body.newPsk.kind # "priv"
       /\ res[p].body.serverKey.kind # "priv"
       /\ \A i \in DOMAIN res[p].body.peers : res[p].body.peers[i].pub.kind # "priv"
       /\ \A i \in DOMAIN req[p].listed :
            req[p].listed[i].pub.kind # "priv" /\ req[p].listed[i].psk.kind # "priv"
       /\ res[p].body.config # << >> =>
            /\ req[p].op = "config"
            /\ res[p].body.config[1].k.kind = "priv"
            /\ \A n \in 2 .. Len(res[p].body.config) : res[p].body.config[n].k.kind # "priv"

\* A Create answered 200: the private key generated is in the row, the
\* peer and the response hold the public key.
C23_Witness ==
  \E p \in Procs :
    /\ Done(p, "create") /\ res[p].code = 200
    /\ custody[res[p].body.id].priv = req[p].keys.priv
    /\ req[p].keys.priv.kind = "priv"
    /\ router[res[p].body.id].pub.kind = "pub"
    /\ res[p].body.pub.kind = "pub"

\* C24: the number a cleanup request returns is the number of rows its run
\* of cleanupOrphanedPeers has removed, a run in which a delete failed
\* after others succeeded included.
C24_CleanupCountsRemovals ==
  \A p \in Procs :
    Done(p, "cleanup") =>
      res[p].body.count = Cardinality(DOMAIN pre[p].custody \ DOMAIN custody)

\* C25: when the answer to the router add held no identifier, createPeer
\* lists the peers; the identifier it returns is that of a listed peer whose
\* public key and comment are the ones just sent, never that of a peer with
\* another public key, and it throws `no identifier` exactly when the
\* listing succeeded and holds no such peer.
C25_RelistMatchesKeyAndComment ==
  \A p \in Procs :
    req[p].relisted =>
      LET matches == {i \in DOMAIN req[p].listed :
                        /\ req[p].listed[i].pub = req[p].keys.pub
                        /\ req[p].listed[i].comment = Trim(req[p].name)}
      IN /\ req[p].newId # NoId => req[p].newId \in matches
         /\ req[p].newId = NoId => (pc[p] = "done" /\ res[p].code = 500)
         /\ "no_id" \in res[p].err => matches = {}
         /\ (matches = {} /\ "get_peers" \notin res[p].err) => "no_id" \in res[p].err

\* The listing held an older peer with the same comment and another public
\* key next to the new peer; the identifier returned is the new peer's.
C25_Witness ==
  \E p \in Procs :
    /\ req[p].relisted /\ req[p].newId # NoId
    /\ \E i \in DOMAIN req[p].listed :
         /\ i # req[p].newId
         /\ req[p].listed[i].comment = Trim(req[p].name)
         /\ req[p].listed[i].pub # req[p].keys.pub
    /\ router[req[p].newId].pub = req[p].keys.pub

\* C26: generateKeys returns the keys of the wg tool when the tool is
\* installed and its commands work, the keys of the fallback when the tool
\* is missing or a command fails and the fallback is there, and throws only
\* when the fallback is missing too; what it returns holds a preshared key
\* exactly when one was asked for.
C26_PrimaryThenFallback ==
  \A p \in Procs :
    req[p].gen.called =>
      LET env == req[p].gen.env
          g == req[p].gen.result
          primary == env.tool /\ env.primary
      IN /\ primary => (g.ok /\ g.strategy = "primary")
         /\ (~primary /\ env.fallback) => (g.ok /\ g.strategy = "fallback")
         /\ ~g.ok <=> (~primary /\ ~env.fallback)
         /\ g.ok => ((g.keys.psk # NoKey) <=> req[p].gen.includePresharedKey)

\* C27: isValidWireGuardKey answers true exactly for a string of 44
\* characters whose first 43 are letters, digits, '+' or '/' and whose last
\* is '='; it answers false for null, for values that are not strings and
\* for strings of any other length or shape.
C27_ValidExactlyBase64Of44 ==
  \A p \in Procs :
    req[p].checked =>
      LET v == req[p].probe
      IN req[p].valid <=>
           /\ v.type = "string"
           /\ Len(v.chars) = 44
           /\ \A i \in 1..43 : v.chars[i] \in Base64Alphabet
           /\ v.chars[44] = "="
\* A string of 44 characters was accepted.
C27_Witness ==
  \E p \in Procs :
    /\ req[p].checked /\ req[p].valid
    /\ req[p].probe.type = "string" /\ Len(req[p].probe.chars) = 44
\* A string of 44 characters with one character outside the alphabet, a
\* string one character longer and a value that is not a string were each
\* rejected.
C27_RejectedMalformed ==
  \E p \in Procs :
    /\ req[p].checked /\ ~req[p].valid
    /\ req[p].probe.type = "string" /\ Len(req[p].probe.chars) = 44
    /\ req[p].probe.chars[44] = "="
C27_RejectedArray ==
  \E p \in Procs :
    /\ req[p].checked /\ ~req[p].valid
    /\ req[p].probe.type = "object" /\ Len(req[p].probe.chars) = 44

\* C28: every invocation ends with exactly one result.  A request that is
\* inside its handler has sent nothing and reaches its response whichever
\* call fails; at the response exactly one result was sent, a success (200,
\* no error) or an error (400, 404 or 500) that carries its message.
C28_ExactlyOneResult ==
  /\ [](\A p \in Procs :
          /\ Running(p) => res[p].n = 0
          /\ pc[p] = "done" =>
                /\ res[p].n = 1
                /\ \/ res[p].code = 200 /\ res[p].err = {}
                   \/ res[p].code \in {400, 404, 500} /\ res[p].err # {})
  /\ (Running(1) ~> (pc[1] = "done"))
\* A regeneration whose custody save failed, after four router and store
\* calls, sent its one error.
C28_Witness ==
  \E p \in Procs :
    /\ Done(p, "regenerate") /\ res[p].n = 1 /\ res[p].code = 500
    /\ "save" \in res[p].err

\* C29: the listing answers with one entry per peer on the router, none for
\* a row whose peer is not on the router, and hasStoredKeys of an entry is
\* true exactly when the store holds a row with that peer's identifier.
C29_ListingMatchesRouterAndStore ==
  \A p \in Procs :
    (Done(p, "list") /\ res[p].code = 200) =>
      /\ DOMAIN res[p].body.peers = DOMAIN router
      /\ \A i \in DOMAIN res[p].body.peers :
           /\ res[p].body.peers[i].id = i
           /\ res[p].body.peers[i].hasStoredKeys <=> (i \in DOMAIN custody)
\* The same over the peers that getPeers returned to the handler.
C29_ListingMatchesListedAndStore ==
  \A p \in Procs :
    (Done(p, "list") /\ res[p].code = 200) =>
      /\ DOMAIN res[p].body.peers = DOMAIN req[p].listed
      /\ \A i \in DOMAIN res[p].body.peers :
           /\ res[p].body.peers[i].id = i
           /\ res[p].body.peers[i].hasStoredKeys <=> (i \in DOMAIN custody)
\* A listing with an entry without stored keys, beside a row without a peer.
C29_DegradedAndOrphan ==
  \E p \in Procs :
    /\ Done(p, "list") /\ res[p].code = 200
    /\ \E i \in DOMAIN res[p].body.peers : ~res[p].body.peers[i].hasStoredKeys
    /\ \E j \in DOMAIN custody : j \notin DOMAIN router

\* C30: complete regeneration has no compensating step.  When the router
\* create (the interface lookup that precedes it included) or the custody
\* save fails after the old peer and the old row were deleted, the Update
\* answers with an error, the old peer and the old row stay deleted, no row
\* is written, and a new peer the router already added stays on the router.
C30_RegenerationNotCompensated ==
  \A p \in Procs :
    ( /\ Done(p, "regenerate")
      /\ req[p].id \in DOMAIN pre[p].router
      /\ req[p].id \in DOMAIN pre[p].custody
      /\ res[p].err \cap {"interface", "create", "no_id", "get_peers", "save"} # {} ) =>
      /\ res[p].code = 500
      /\ req[p].id \notin DOMAIN router
      /\ custody = Without(pre[p].custody, req[p].id)
      /\ (req[p].relisted \/ "save" \in res[p].err) =>
            \E i \in DOMAIN router :
              /\ i \notin DOMAIN pre[p].router
              /\ router[i].pub = req[p].keys.pub
      /\ ~(req[p].relisted \/ "save" \in res[p].err) =>
            router = Without(pre[p].router, req[p].id)
\* The save failed after the new peer was created: the old peer and row are
\* gone and the new peer is on the router without a row.
C30_Witness ==
  \E p \in Procs :
    /\ Done(p, "regenerate") /\ res[p].code = 500 /\ "save" \in res[p].err
    /\ req[p].id \in DOMAIN pre[p].router
    /\ req[p].id \in DOMAIN pre[p].custody
    /\ req[p].id \notin DOMAIN router /\ req[p].id \notin DOMAIN custody
    /\ req[p].newId \in DOMAIN router /\ req[p].newId \notin DOMAIN custody
\* The router create failed: neither the old peer nor a new one is there.
C30_CreateFailed ==
  \E p \in Procs :
    /\ Done(p, "regenerate") /\ res[p].code = 500 /\ "create" \in res[p].err
    /\ ~req[p].relisted
    /\ req[p].id \in DOMAIN pre[p].router
    /\ router = Without(pre[p].router, req[p].id)

\* C31: an in-place Update inserts and deletes no row and changes no row's
\* name, address or private key; without updatePresharedKey it leaves the
\* store as it was, with it only the preshared key of the row of id may
\* change.  The document a config request answers with holds the address of
\* the row, whatever address the router holds for the peer.
C31_UpdateLeavesRowsInPlace ==
  \A p \in Procs :
    /\ (req[p].op = "update" /\ pc[p] # "idle") =>
         /\ DOMAIN custody = DOMAIN pre[p].custody
         /\ \A i \in DOMAIN custody :
              /\ custody[i].name = pre[p].custody[i].name
              /\ custody[i].addr = pre[p].custody[i].addr
              /\ custody[i].priv = pre[p].custody[i].priv
              /\ (i # req[p].id \/ ~req[p].updPsk) =>
                    custody[i].psk = pre[p].custody[i].psk
         /\ ~req[p].updPsk => custody = pre[p].custody
    /\ (Done(p, "config") /\ res[p].code = 200) =>
         res[p].body.config[2].a = custody[req[p].id].addr
\* A config request answered with the row's old address and file name after
\* an Update gave the peer another name and address on the router.
C31_Witness ==
  \E p \in Procs :
    /\ Done(p, "config") /\ res[p].code = 200
    /\ req[p].id \in DOMAIN router
    /\ router[req[p].id].addr # custody[req[p].id].addr
    /\ router[req[p].id].comment # custody[req[p].id].name
    /\ res[p].body.config[2].a = custody[req[p].id].addr
    /\ res[p].body.config[2].a # router[req[p].id].addr
\* An Update without updatePresharedKey answered 200 having changed the
\* peer's address on the router and nothing in the store.
C31_UpdateDone ==
  \E p \in Procs :
    /\ Done(p, "update") /\ res[p].code = 200 /\ ~req[p].updPsk
    /\ router[req[p].id].addr # pre[p].router[req[p].id].addr
    /\ req[p].id \in DOMAIN custody /\ custody = pre[p].custody

\* C32: when an in-place Update with updatePresharedKey answers 200 for a
\* peer that had a row, and no other request touched the peer meanwhile, the
\* preshared key on the router, the one in the row and the newPresharedKey
\* of the answer are one and the same key.
C32_NewPresharedKeyEverywhere ==
  \A p \in Procs :
    ( /\ Done(p, "update") /\ res[p].code = 200 /\ req[p].updPsk
      /\ req[p].id \in DOMAIN pre[p].custody ) =>
      /\ req[p].id \in DOMAIN router /\ req[p].id \in DOMAIN custody
      /\ res[p].body.newPsk # NoKey
      /\ router[req[p].id].psk = res[p].body.newPsk
      /\ custody[req[p].id].psk = res[p].body.newPsk
\* Such an Update replaced the key the router and the row held before.
C32_Witness ==
  \E p \in Procs :
    /\ Done(p, "update") /\ res[p].code = 200 /\ req[p].updPsk
    /\ req[p].id \in DOMAIN pre[p].custody
    /\ pre[p].custody[req[p].id].psk # NoKey
    /\ custody[req[p].id].psk # pre[p].custody[req[p].id].psk
    /\ router[req[p].id].psk = custody[req[p].id].psk
    /\ res[p].body.newPsk = custody[req[p].id].psk

\* C33: the store holds at most one row per mikrotik_id.  A save under an
\* identifier leaves exactly one row under it, the one just saved, whether
\* or not a row was there before, and leaves the rows of every other
\* identifier as they were; the rows by identifier are what the handlers
\* see as the store.
C33_OneRowPerRouterId ==
  /\ [](\A r1 \in peer_keys.rows, r2 \in peer_keys.rows :
          r1.mikrotik_id = r2.mikrotik_id => r1 = r2)
  /\ [](/\ DOMAIN custody = {r.mikrotik_id : r \in peer_keys.rows}
        /\ \A r \in peer_keys.rows :
             custody[r.mikrotik_id] = Row(r.name, r.priv, r.psk, r.addr))
  /\ [][\A p \in Procs :
         (req'[p].op = "savePeerKeys" /\ req'[p].fault = "none" /\ nreq' = nreq + 1) =>
           LET id == req'[p].id
               under == {r \in peer_keys'.rows : r.mikrotik_id = id}
           IN /\ \E r \in under :
                   /\ under = {r}
                   /\ Row(r.name, r.priv, r.psk, r.addr) = req'[p].row
                   /\ r \notin peer_keys.rows
              /\ {r \in peer_keys'.rows : r.mikrotik_id # id}
                   = {r \in peer_keys.rows : r.mikrotik_id # id}]_vars
\* A save replaced the row that was stored under identifier 1, beside a row
\* under identifier 2: the table holds the new row only under 1.
C33_Witness ==
  \E p \in Procs :
    /\ req[p].op = "savePeerKeys" /\ req[p].fault = "none" /\ req[p].id = 1
    /\ \E q \in peer_keys.rows : q.mikrotik_id = 2
    /\ \E r \in peer_keys.rows :
         /\ r.mikrotik_id = 1 /\ r.rowid > 1
         /\ Row(r.name, r.priv, r.psk, r.addr) = req[p].row
         /\ {q \in peer_keys.rows : q.mikrotik_id = 1} = {r}

\* C34: a Toggle of an identifier that is not a peer on the router never
\* reaches its router write: it awaits its read and is then answered with
\* an error, and the router and the store are what they were when the
\* request arrived.
C34_ToggleOfMissingPeerFails ==
  \A p \in Procs :
    ( /\ req[p].op = "toggle" /\ pc[p] # "idle"
      /\ req[p].id \notin DOMAIN pre[p].router ) =>
      /\ pc[p] \in {"t_read", "done"}
      /\ pc[p] = "done" => (res[p].code >= 400 /\ res[p].err # {})
      /\ router = pre[p].router
      /\ custody = pre[p].custody
\* A Toggle of a peer the administrator removed, whose row is still stored,
\* was answered with an error.
C34_Witness ==
  \E p \in Procs :
    /\ Done(p, "toggle") /\ res[p].code = 500 /\ res[p].err = {"get_peer"}
    /\ req[p].id \notin DOMAIN router
    /\ req[p].id \in DOMAIN custody
    /\ router = pre[p].router /\ custody = pre[p].custody

====
